---- MODULE Spec2Model ----
(***************************************************************************)
(* A model of the scrape-extract-cache pipeline of rust_docs_mcp:          *)
(* src/src/scraper.py (DocsRsScraper, load_cached_docs, save_docs_to_disk),*)
(* src/src/core.py (the *_impl functions) and src/src/parser.py.           *)
(*                                                                         *)
(* Strings are sequences of one-character strings, so that the string      *)
(* conversions of the code (sanitising a key, taking a file stem, joining  *)
(* a directory name) are computed character by character.                  *)
(***************************************************************************)
EXTENDS Integers, Sequences, FiniteSets, TLC

(***************************************************************************)
(* Bounds of the model.                                                    *)
(***************************************************************************)
\* number of operations one client session invokes
MaxCalls == 3

\* number of module links on the largest root page the remote host serves
MaxLinks == 11

\* number of packages in the largest lock file
MaxDeps == 6

\* number of sections in a manifest text given to the parser
MaxBlocks == 3

(***************************************************************************)
(* Strings.                                                                *)
(***************************************************************************)
EmptyFn == [x \in {} |-> x]

Range(s) == {s[i] : i \in DOMAIN s}

StartsWith(s, p) == Len(p) <= Len(s) /\ SubSeq(s, 1, Len(p)) = p

EndsWith(s, p) == Len(p) <= Len(s) /\ SubSeq(s, Len(s) - Len(p) + 1, Len(s)) = p

\* the permutations of a finite set, as sequences
Perms(S) == {q \in [1..Cardinality(S) -> S] : \A a \in S : \E i \in DOMAIN q : q[i] = a}

README == <<"R", "E", "A", "D", "M", "E">>
MD == <<".", "m", "d">>
ReadmeFile == README \o MD

\* the character class of re.sub(r'[<>:"/\\|?*]', '_', module_path)
ReservedChars == {"<", ">", ":", "\"", "/", "\\", "|", "?", "*"}

SanitizeNothing(s) == s

\* re.sub(r'[<>:"/\\|?*]', '_', module_path)

Sanitize(s) == [i \in 1..Len(s) |-> IF s[i] \in ReservedChars THEN "_" ELSE s[i]]

\* file_path = crate_dir / f"{safe_filename}.md"
FileNameOf(module_path) == Sanitize(module_path) \o MD

\* pathlib's PurePath.stem: cut at the last dot unless it is the first or the
\* last character of the name
LastDot(name) == IF \E i \in DOMAIN name : name[i] = "."
                 THEN CHOOSE i \in DOMAIN name :
                        name[i] = "." /\ \A j \in DOMAIN name : name[j] = "." => j <= i
                 ELSE 0

StemKeepsSuffix(name) == name

Stem(name) == LET j == LastDot(name)
              IN IF 1 < j /\ j < Len(name) THEN SubSeq(name, 1, j - 1) ELSE name

\* f"{crate_name}-{version}"
DirName(crate_name, version) == crate_name \o <<"-">> \o version

CacheRootPath == <<".", "/", "r", "u", "s", "t", "_", "d", "o", "c", "s", "_", "c", "a", "c", "h", "e">>

\* str(docs_cache_dir / f"{crate_name}-{version}")
DirPath(crate_name, version) == CacheRootPath \o <<"/">> \o DirName(crate_name, version)

(***************************************************************************)
(* File contents.  A markdown text is a record: an extracted page (kind    *)
(* "doc": its H1 title and the page it was extracted from), the generated  *)
(* index (kind "index": the header and the list of links), or the empty    *)
(* string.                                                                 *)
(***************************************************************************)
EmptyStr == [kind |-> "empty", title |-> <<>>, src |-> <<>>, entries |-> <<>>]

Doc(title, src) == [kind |-> "doc", title |-> title, src |-> src, entries |-> <<>>]

(***************************************************************************)
(* A DocumentSet is a Python dict: a sequence of <<key, content>> pairs    *)
(* with distinct keys, in insertion order.                                 *)
(***************************************************************************)
Keys(docs) == {docs[i][1] : i \in DOMAIN docs}

KeySeq(docs) == [i \in DOMAIN docs |-> docs[i][1]]

Get(docs, key) == docs[CHOOSE i \in DOMAIN docs : docs[i][1] = key][2]

DictAppend(docs, key, content) == Append(docs, <<key, content>>)

\* docs[key] = content
DictSet(docs, key, content) ==
    IF key \in Keys(docs)
    THEN [i \in DOMAIN docs |-> IF docs[i][1] = key THEN <<key, content>> ELSE docs[i]]
    ELSE Append(docs, <<key, content>>)

Truthy(docs) == Len(docs) > 0

(***************************************************************************)
(* The cache: fs maps the name of each directory under the cache root to   *)
(* its files (file name -> content).                                       *)
(***************************************************************************)
FilePut(files, name, content) ==
    [x \in DOMAIN files \cup {name} |-> IF x = name THEN content ELSE files[x]]

WriteNothing(files, docs, n) == files

\* the first n entries of docs written, in dict order (scraper.py 403-412)
RECURSIVE WriteUpTo(_, _, _)
WriteUpTo(files, docs, n) ==
    IF n = 0 THEN files
    ELSE FilePut(WriteUpTo(files, docs, n - 1), FileNameOf(docs[n][1]), docs[n][2])

EmptyIndex(crate_name, version, docs) ==
    [kind |-> "index", title |-> crate_name \o <<" ", "v">> \o version, src |-> <<>>, entries |-> <<>>]

\* index_content (scraper.py 415-424)
IndexContent(crate_name, version, docs) ==
    [kind |-> "index",
     title |-> crate_name \o <<" ", "v">> \o version,
     src |-> <<>>,
     entries |-> [i \in DOMAIN docs |-> <<docs[i][1], FileNameOf(docs[i][1])>>]]

\* An I/O fault of one save: none, at mkdir, or at the open or the write of
\* the i-th file written (the index is file Len(docs) + 1).
NoFault == [at |-> "none", i |-> 0]

StoreFaults(docs) ==
    {NoFault, [at |-> "mkdir", i |-> 0]}
    \cup {[at |-> a, i |-> i] : a \in {"open", "write"}, i \in 1..(Len(docs) + 1)}

\* what except Exception returns (scraper.py 438-445)
StoreFailurePath == <<>>

\* save_docs_to_disk: the directory's files after the call, and the returned path
save_docs_to_disk(root, cache, crate_name, version, docs, fault) ==
    LET dir == DirName(crate_name, version)
        n == Len(docs)
        old == IF dir \in DOMAIN cache THEN cache[dir] ELSE EmptyFn
        done == IF fault.at \in {"open", "write"} THEN fault.i - 1 ELSE n
        written == WriteUpTo(old, docs, done)
        torn == IF fault.at = "write"
                THEN FilePut(written,
                             IF fault.i <= n THEN FileNameOf(docs[fault.i][1]) ELSE ReadmeFile,
                             EmptyStr)
                ELSE written
        files == IF fault.at = "none"
                 THEN FilePut(written, ReadmeFile, IndexContent(crate_name, version, docs))
                 ELSE torn
        with(f) == [x \in DOMAIN cache \cup {dir} |-> IF x = dir THEN f ELSE cache[x]]
    IN  IF ~root \/ fault.at = "mkdir"
        THEN [fs |-> cache, path |-> StoreFailurePath]
        ELSE [fs |-> with(files),
              path |-> IF fault.at = "none" THEN DirPath(crate_name, version)
                       ELSE StoreFailurePath]

\* the files crate_dir.glob("*.md") yields
GlobMd(files) == {name \in DOMAIN files : EndsWith(name, MD)}

LoadOrders(root, cache, crate_name, version) ==
    LET dir == DirName(crate_name, version)
    IN IF root /\ dir \in DOMAIN cache THEN Perms(GlobMd(cache[dir])) ELSE {<<>>}

\* the dict built from the globbed files in the order the file system yields them
RECURSIVE ReadFiles(_, _, _)
ReadFiles(files, order, n) ==
    IF n = 0 THEN <<>>
    ELSE LET rest == ReadFiles(files, order, n - 1)
         IN IF order[n] = ReadmeFile THEN rest
            ELSE DictSet(rest, Stem(order[n]), files[order[n]])

\* load_cached_docs: None (found = FALSE) or the dict read (scraper.py 332-370)
load_cached_docs(root, cache, crate_name, version, order, fault) ==
    LET dir == DirName(crate_name, version)
    IN IF ~root \/ dir \notin DOMAIN cache THEN [found |-> FALSE, docs |-> <<>>]
       ELSE IF fault THEN [found |-> FALSE, docs |-> <<>>]
       ELSE [found |-> TRUE, docs |-> ReadFiles(cache[dir], order, Len(order))]

(***************************************************************************)
(* Browsing the cache: list_cached_documentation_impl (core.py 206-239)    *)
(* and get_cached_doc_content_impl (core.py 242-286).                      *)
(***************************************************************************)
\* plain files lying in the cache root beside the directories
RootFiles == {<<"a", ".", "t", "x", "t">>}

\* docs_cache_dir.iterdir(): the names of the entries of the root
RootEntries(cache) == DOMAIN cache \cup RootFiles

\* the orders in which the file system may yield them
IterOrders(cache) == Perms(RootEntries(cache))

\* item.is_dir()
IsDir(cache, name) == name \in DOMAIN cache

\* the characters of the names in the cache, by code point
CharOrder == <<"-", ".", "1", "2", "A", "D", "E", "M", "R", "_", "a", "b", "d", "m", "t", "x">>

Ord(c) == CHOOSE i \in DOMAIN CharOrder : CharOrder[i] = c

\* s < t on Python strings
StrLess(s, t) ==
    \E i \in 1..(Len(t)) :
        /\ i <= Len(s) + 1
        /\ \A j \in 1..(i - 1) : s[j] = t[j]
        /\ (i = Len(s) + 1 \/ Ord(s[i]) < Ord(t[i]))

\* x put at its place in a sorted list
RECURSIVE InsertSorted(_, _)
InsertSorted(sorted, x) ==
    IF Len(sorted) = 0 THEN <<x>>
    ELSE IF StrLess(x, sorted[1]) THEN <<x>> \o sorted
    ELSE <<sorted[1]>> \o InsertSorted(Tail(sorted), x)

Unsorted(names) == names

\* cached_dirs.sort() / sorted(files)
RECURSIVE SortNames(_)
SortNames(names) ==
    IF Len(names) = 0 THEN <<>>
    ELSE InsertSorted(SortNames(SubSeq(names, 1, Len(names) - 1)), names[Len(names)])

\* list_cached_documentation_impl: order is the order iterdir yields the
\* entries in, fault whether iterating raises
list_cached_documentation_impl(root, cache, order, fault) ==
    IF ~root THEN <<>>
    ELSE IF fault THEN <<>>
    ELSE SortNames(SelectSeq(order, LAMBDA name : IsDir(cache, name)))

\* whatever starts with the name matches
AnyName(name, crate_name) == TRUE

\* item.name.startswith(crate_name)
NameMatches(name, crate_name) == StartsWith(name, crate_name)

NoAnswer == [kind |-> "none", dir |-> <<>>, content |-> EmptyStr, files |-> <<>>]

\* get_cached_doc_content_impl: "No cached documentation found" (none), the
\* content of README.md of the first matching directory (index), the sorted
\* names of its files when it has no README.md (listing), or "Error reading
\* cached docs" when iterating or reading raises (error)
get_cached_doc_content_impl(root, cache, crate_name, order, fault) ==
    LET matching_dirs ==
            IF root
            THEN SelectSeq(order, LAMBDA name : IsDir(cache, name) /\ NameMatches(name, crate_name))
            ELSE <<>>
    IN IF root /\ fault THEN [NoAnswer EXCEPT !.kind = "error"]
       ELSE IF Len(matching_dirs) = 0 THEN NoAnswer
       ELSE LET doc_dir == matching_dirs[1]
                files == cache[doc_dir]
            IN IF ReadmeFile \in DOMAIN files
               THEN [NoAnswer EXCEPT !.kind = "index", !.dir = doc_dir, !.content = files[ReadmeFile]]
               ELSE [NoAnswer EXCEPT !.kind = "listing", !.dir = doc_dir,
                                     !.files = SortNames(CHOOSE s \in Perms(DOMAIN files) : TRUE)]

(***************************************************************************)
(* URLs and link discovery.                                                *)
(***************************************************************************)
Contains(s, c) == \E i \in DOMAIN s : s[i] = c

\* s.split(c): the pieces of s between the occurrences of the character c
RECURSIVE SplitAt(_, _)
SplitAt(s, c) ==
    IF ~Contains(s, c) THEN <<s>>
    ELSE LET i == CHOOSE k \in DOMAIN s : s[k] = c /\ \A j \in 1..(k - 1) : s[j] # c
         IN <<SubSeq(s, 1, i - 1)>> \o SplitAt(SubSeq(s, i + 1, Len(s)), c)

\* c.join(pieces)
RECURSIVE JoinWith(_, _)
JoinWith(pieces, c) ==
    IF Len(pieces) = 0 THEN <<>>
    ELSE IF Len(pieces) = 1 THEN pieces[1]
    ELSE pieces[1] \o <<c>> \o JoinWith(Tail(pieces), c)

\* s.replace(sub, "")
RECURSIVE RemoveAll(_, _)
RemoveAll(s, sub) ==
    IF Len(s) < Len(sub) THEN s
    ELSE IF StartsWith(s, sub) THEN RemoveAll(SubSeq(s, Len(sub) + 1, Len(s)), sub)
    ELSE <<s[1]>> \o RemoveAll(Tail(s), sub)

HTTP == <<"h", "t", "t", "p">>
HTTPS == <<"h", "t", "t", "p", "s">>
SchemeSep == <<":", "/", "/">>
DocsHost == <<"d", "o", "c", "s", ".", "r", "s">>
DotHtml == <<".", "h", "t", "m", "l">>

\* a URL is scheme://host/path
Url(scheme, host, path) == scheme \o SchemeSep \o host \o path

\* base_url = f"https://docs.rs/{crate_name}/{version}/{crate_name}/"
BaseUrl(crate_name, version) ==
    Url(HTTPS, DocsHost, <<"/">> \o crate_name \o <<"/">> \o version \o <<"/">> \o crate_name \o <<"/">>)

RootAsFeaturesUrl(crate_name, version) == BaseUrl(crate_name, version)

\* features_url = f"https://docs.rs/crate/{crate_name}/{version}/features"
FeaturesUrl(crate_name, version) ==
    Url(HTTPS, DocsHost, <<"/", "c", "r", "a", "t", "e", "/">> \o crate_name \o <<"/">> \o version
                         \o <<"/", "f", "e", "a", "t", "u", "r", "e", "s">>)

\* the host of an absolute URL
HostOf(url) ==
    LET rest == IF StartsWith(url, HTTPS \o SchemeSep)
                THEN SubSeq(url, Len(HTTPS) + 4, Len(url))
                ELSE SubSeq(url, Len(HTTP) + 4, Len(url))
    IN SplitAt(rest, "/")[1]

\* RFC 3986 remove_dot_segments on the segments of a path
RECURSIVE DropDots(_, _)
DropDots(segs, out) ==
    IF Len(segs) = 0 THEN out
    ELSE IF segs[1] = <<".">> THEN DropDots(Tail(segs), IF Len(segs) = 1 THEN Append(out, <<>>) ELSE out)
    ELSE IF segs[1] = <<".", ".">>
         THEN LET up == IF Len(out) > 0 THEN SubSeq(out, 1, Len(out) - 1) ELSE out
              IN DropDots(Tail(segs), IF Len(segs) = 1 THEN Append(up, <<>>) ELSE up)
    ELSE DropDots(Tail(segs), Append(out, segs[1]))

\* urllib.parse.urljoin(base, href) for a base https://host/dir/ and an href
\* without query: an absolute href, //host/path, /path, #fragment, or a
\* relative path
urljoin(base, href) ==
    LET host == HostOf(base)
        basePath == SubSeq(base, Len(HTTPS) + 3 + Len(host) + 1, Len(base))
        baseDir == LET segs == SplitAt(basePath, "/")
                   IN SubSeq(segs, 2, Len(segs) - 1)
    IN IF Len(href) = 0 THEN base
       ELSE IF StartsWith(href, HTTPS \o SchemeSep) \/ StartsWith(href, HTTP \o SchemeSep) THEN href
       ELSE IF StartsWith(href, <<"/", "/">>) THEN HTTPS \o <<":">> \o href
       ELSE IF href[1] = "/"
            THEN Url(HTTPS, host, <<"/">> \o JoinWith(DropDots(Tail(SplitAt(href, "/")), <<>>), "/"))
       ELSE IF href[1] = "#" THEN base \o href
       ELSE Url(HTTPS, host, <<"/">> \o JoinWith(DropDots(baseDir \o SplitAt(href, "/"), <<>>), "/"))

\* href.split('/')[-1].replace('.html', '')
NameFromHref(href) ==
    LET segs == SplitAt(href, "/") IN RemoveAll(segs[Len(segs)], DotHtml)

\* _find_module_links: the (module_name, full_url) pairs of the anchors of a
\* page, in document order; an anchor is [href, text], text already stripped
RECURSIVE find_module_links(_, _)
find_module_links(anchors, base_url) ==
    IF Len(anchors) = 0 THEN <<>>
    ELSE LET link == anchors[Len(anchors)]
             before == find_module_links(SubSeq(anchors, 1, Len(anchors) - 1), base_url)
             href == link.href
             module_name == IF Len(link.text) > 0 THEN link.text ELSE NameFromHref(href)
         IN IF /\ Len(href) > 0
               /\ (Contains(href, "/") \/ EndsWith(href, DotHtml))
               /\ Len(module_name) > 0
               /\ ~StartsWith(module_name, HTTP)
            THEN Append(before, <<module_name, urljoin(base_url, href)>>)
            ELSE before

(***************************************************************************)
(* Content extraction.  A page is abstracted to what the extractors find   *)
(* in it: whether it has a content landmark (main), whether the feature    *)
(* heuristics find anything (features), and its anchors.                   *)
(***************************************************************************)
\* _extract_documentation(soup, title): "" without a content landmark
extract_documentation(page, url, title) ==
    IF page.main THEN Doc(<<"#", " ">> \o title, url) ELSE EmptyStr

\* _parse_feature_flags(soup, crate_name): "" when nothing beyond the title is found
FeatureTitle(crate_name) ==
    <<"#", " ">> \o crate_name \o <<" ", "-", " ", "F", "e", "a", "t", "u", "r", "e", " ", "F", "l", "a", "g", "s">>

parse_feature_flags(page, url, crate_name) ==
    IF page.features THEN Doc(FeatureTitle(crate_name), url) ELSE EmptyStr

\* f"{crate_name} (main)"
MainTitle(crate_name) == crate_name \o <<" ", "(", "m", "a", "i", "n", ")">>

INDEX == <<"i", "n", "d", "e", "x">>
FEATURES == <<"f", "e", "a", "t", "u", "r", "e", "s">>

(***************************************************************************)
(* CargoLockParser.parse_cargo_lock (parser.py 16-47).                     *)
(***************************************************************************)
NL == "\n"

Whitespace == {" ", "\n", "\t", "\r"}

\* s.strip()
RECURSIVE Strip(_)
Strip(s) ==
    IF Len(s) = 0 THEN s
    ELSE IF s[1] \in Whitespace THEN Strip(Tail(s))
    ELSE IF s[Len(s)] \in Whitespace THEN Strip(SubSeq(s, 1, Len(s) - 1))
    ELSE s

\* s.strip('"')
RECURSIVE StripQuotes(_)
StripQuotes(s) ==
    IF Len(s) = 0 THEN s
    ELSE IF s[1] = "\"" THEN StripQuotes(Tail(s))
    ELSE IF s[Len(s)] = "\"" THEN StripQuotes(SubSeq(s, 1, Len(s) - 1))
    ELSE s

\* s.split(sep) for a separator of several characters
RECURSIVE SplitSub(_, _)
SplitSub(s, sep) ==
    IF \E i \in 1..(Len(s) - Len(sep) + 1) : SubSeq(s, i, i + Len(sep) - 1) = sep
    THEN LET i == CHOOSE k \in 1..(Len(s) - Len(sep) + 1) :
                    /\ SubSeq(s, k, k + Len(sep) - 1) = sep
                    /\ \A j \in 1..(k - 1) : SubSeq(s, j, j + Len(sep) - 1) # sep
         IN <<SubSeq(s, 1, i - 1)>> \o SplitSub(SubSeq(s, i + Len(sep), Len(s)), sep)
    ELSE <<s>>

PackageHeader == <<"[", "[", "p", "a", "c", "k", "a", "g", "e", "]", "]">>
EqSep == <<" ", "=", " ">>
NameEq == <<"n", "a", "m", "e">> \o EqSep
VersionEq == <<"v", "e", "r", "s", "i", "o", "n">> \o EqSep

\* the name and version a section's lines leave (<<>> stands for None);
\* a later line of the same kind overwrites an earlier one
RECURSIVE SectionFields(_, _)
SectionFields(lines, n) ==
    IF n = 0 THEN [name |-> <<>>, version |-> <<>>]
    ELSE LET before == SectionFields(lines, n - 1)
             line == Strip(lines[n])
         IN IF StartsWith(line, NameEq)
            THEN [before EXCEPT !.name = StripQuotes(SplitSub(line, EqSep)[2])]
            ELSE IF StartsWith(line, VersionEq)
            THEN [before EXCEPT !.version = StripQuotes(SplitSub(line, EqSep)[2])]
            ELSE before

AnySection(section) == TRUE

\* if section.strip().startswith('[[package]]'), section already stripped
IsPackageSection(section) == StartsWith(section, PackageHeader)

RECURSIVE ParseSections(_, _)
ParseSections(sections, n) ==
    IF n = 0 THEN <<>>
    ELSE LET dependencies == ParseSections(sections, n - 1)
             section == Strip(sections[n])
             lines == SplitAt(section, NL)
             f == SectionFields(lines, Len(lines))
         IN IF IsPackageSection(section) /\ Len(f.name) > 0 /\ Len(f.version) > 0
            THEN DictSet(dependencies, f.name, f.version)
            ELSE dependencies

parse_cargo_lock(content) ==
    LET sections == SplitSub(content, <<NL, NL>>)
    IN ParseSections(sections, Len(sections))

CargoLock == <<"C", "a", "r", "g", "o", ".", "l", "o", "c", "k">>

AnyFileName(name) == TRUE

\* if not path.name == "Cargo.lock"
IsCargoLock(name) == name = CargoLock

NeverMissing(file) == FALSE

\* if not path.exists()
Missing(file) == ~file.exists

\* read_cargo_lock_impl (core.py 39-72) with what it did on the way: ret, the
\* value returned; steps, the checks and file operations made, in order;
\* caught, whether the except clause (68-72) ran.  file.name is the basename
\* of the resolved path; opening a file that is not there, or one that
\* cannot be read (file.fault), raises.
read_cargo_lock_steps(file) ==
    IF Missing(file)
    THEN [ret |-> <<>>, steps |-> <<"exists">>, caught |-> FALSE]
    ELSE IF ~IsCargoLock(file.name)
    THEN [ret |-> <<>>, steps |-> <<"exists", "name">>, caught |-> FALSE]
    ELSE IF ~file.exists \/ file.fault
    THEN [ret |-> <<>>, steps |-> <<"exists", "name", "open">>, caught |-> TRUE]
    ELSE [ret |-> parse_cargo_lock(file.content),
          steps |-> <<"exists", "name", "open", "read", "parse">>, caught |-> FALSE]

\* read_cargo_lock_impl (core.py 39-72): {} for a missing or misnamed file
\* and when reading or parsing raises
read_cargo_lock_impl(file) == read_cargo_lock_steps(file).ret

(***************************************************************************)
(* Inputs.                                                                 *)
(***************************************************************************)
\* package names and versions a caller passes
CrateA == <<"a">>
CrateAB == <<"a", "-", "b">>
Version1 == <<"1">>
VersionB1 == <<"b", "-", "1">>

\* contents a caller of save-docs passes
Text1 == Doc(<<"t", "1">>, <<>>)
Text2 == Doc(<<"t", "2">>, <<>>)

\* DocumentSets a caller of save-docs passes: plain keys, a key with reserved
\* characters beside the key it is sanitised to, the key of the index file,
\* the empty key, and the empty set
SampleDocs ==
    { << <<<<"a">>, Text1>> >>,
      << <<<<"b">>, Text2>> >>,
      << <<<<"a", "/", "b">>, Text1>>, <<<<"a", "_", "b">>, Text2>> >>,
      << <<README, Text1>>, <<<<"a">>, Text2>> >>,
      << <<<<>>, Text1>> >>,
      <<>> }

\* the package/version pairs the direct cache operations are invoked on
CachePairs == {<<CrateA, VersionB1>>, <<CrateAB, Version1>>}

\* anchors of a root page: the i-th plain module link
Letters == <<"c", "d", "e", "g", "h", "j", "k", "l", "m", "n", "o", "p", "q", "r">>

ModuleAnchor(i) == [href |-> <<Letters[i], "/">>, text |-> <<Letters[i]>>]

ModuleAnchors(n) == [i \in 1..n |-> ModuleAnchor(i)]

\* an anchor link discovery skips (no path separator, no .html)
FragmentAnchor == [href |-> <<"#", "t">>, text |-> <<"t", "o", "p">>]

Page(main, features, anchors) == [main |-> main, features |-> features, anchors |-> anchors]

NoPage == Page(FALSE, FALSE, <<>>)

\* an anchor whose module name is the key of the feature flags
FeaturesAnchor == [href |-> <<Letters[1], "/">>, text |-> <<"f", "e", "a", "t", "u", "r", "e", "s">>]

\* anchors whose module name meets a key the scraper or the cache uses itself
ReadmeAnchor == [href |-> <<"r", "/">>, text |-> README]
IndexAnchor == [href |-> <<Letters[1], "/">>, text |-> INDEX]

\* anchors that lead away from the crate's root page: to another host, to
\* another host without a scheme, to another path of the same host, upwards
ExternalAnchor == [href |-> <<"h", "t", "t", "p", "s", ":", "/", "/", "x", ".", "y", "/", "m", "/">>,
                   text |-> <<"m">>]
SchemelessAnchor == [href |-> <<"/", "/", "x", ".", "y", "/", "n", "/">>, text |-> <<"n">>]
RootedAnchor == [href |-> <<"/", "b", "/">>, text |-> <<"b">>]
UpAnchor == [href |-> <<".", ".", "/", ".", ".", "/">>, text |-> <<"u", "p">>]

LinkAnchors == {ModuleAnchor(1), ExternalAnchor, SchemelessAnchor, RootedAnchor, UpAnchor}

\* root pages with one or two of these anchors
LinkPages ==
    {Page(TRUE, FALSE, <<a>>) : a \in LinkAnchors}
    \cup {Page(TRUE, FALSE, <<a, b>>) : a \in LinkAnchors, b \in LinkAnchors}

\* the root pages the remote host may serve
LargePages ==
    {Page(m, FALSE, pre \o ModuleAnchors(n)) :
        m \in BOOLEAN, pre \in {<<>>, <<FragmentAnchor>>}, n \in 0..MaxLinks}
    \cup {Page(TRUE, FALSE, <<FeaturesAnchor>>), Page(TRUE, FALSE, <<IndexAnchor>>)}

\* root pages without links and with more links than the loop takes
LongPages == {Page(m, FALSE, ModuleAnchors(n)) : m \in BOOLEAN, n \in {0, MaxLinks}}

\* a few small root pages: without and with a content landmark, without links
\* and with one
SmallPages ==
    {Page(FALSE, FALSE, <<>>), Page(TRUE, FALSE, <<>>),
     Page(FALSE, FALSE, <<ReadmeAnchor>>), Page(TRUE, FALSE, <<ModuleAnchor(1)>>)}

\* the crates the remote host has documentation for, when it is the registry
Published == {<<"a">>, <<"b">>}

\* the pages the host may answer a root request for crate_name with
RootPages(site, crate_name) ==
    CASE site = "large" -> LargePages
      [] site = "small" -> SmallPages
      [] site = "links" -> LinkPages
      [] site = "long" -> LongPages
      [] site = "registry" -> IF crate_name \in Published THEN SmallPages ELSE {}
      [] OTHER -> {}

\* lock files: blocks of [[package]] / name / version lines, a blank line between
Quoted(s) == <<"\"">> \o s \o <<"\"">>

Block(name, version) ==
    PackageHeader \o <<NL>> \o NameEq \o Quoted(name) \o <<NL>> \o VersionEq \o Quoted(version) \o <<NL>>

RECURSIVE LockText(_)
LockText(deps) ==
    IF Len(deps) = 0 THEN <<>>
    ELSE IF Len(deps) = 1 THEN Block(deps[1][1], deps[1][2])
    ELSE Block(deps[1][1], deps[1][2]) \o <<NL>> \o LockText(Tail(deps))

\* package names in two manifest orders: the published crates first, and the
\* published crates in fifth and sixth place
PublishedFirst == <<"a", "b", "c", "d", "e", "g", "h", "j">>
PublishedFifth == <<"c", "d", "e", "g", "a", "b", "h", "j">>

DepsOf(names, n) == [i \in 1..n |-> << <<names[i]>>, Version1 >>]

\* the header of a real Cargo.lock, and a block without a version line
LockHeader == <<"v", "e", "r", "s", "i", "o", "n", " ", "=", " ", "3", NL, NL>>
NoVersionBlock == PackageHeader \o <<NL>> \o NameEq \o Quoted(<<"z">>) \o <<NL, NL>>

LockTexts ==
    {LockText(DepsOf(names, n)) : names \in {PublishedFirst, PublishedFifth}, n \in 0..MaxDeps}
    \cup {LockHeader \o NoVersionBlock \o LockText(DepsOf(PublishedFirst, 2)),
          LockHeader \o NoVersionBlock}

LockFile(exists, name, fault, content) ==
    [exists |-> exists, name |-> name, fault |-> fault, content |-> content]

CargoToml == <<"C", "a", "r", "g", "o", ".", "t", "o", "m", "l">>

\* the files a caller passes: well named and readable, missing, misnamed,
\* unreadable
LockFiles ==
    {LockFile(TRUE, CargoLock, FALSE, t) : t \in LockTexts}
    \cup {LockFile(FALSE, CargoLock, FALSE, <<>>),
          LockFile(TRUE, CargoToml, FALSE, LockText(DepsOf(PublishedFirst, 2))),
          LockFile(TRUE, CargoLock, TRUE, LockText(DepsOf(PublishedFirst, 2)))}

\* lock files with more dependencies than the workflow takes, and a missing one
RunFiles ==
    {LockFile(TRUE, CargoLock, FALSE, LockText(DepsOf(names, MaxDeps))) :
        names \in {PublishedFirst, PublishedFifth}}
    \cup {LockFile(FALSE, CargoLock, FALSE, <<>>)}

\* The sections a manifest text is written from: a [[package]] block with a
\* name line and a version line (<<>>: the line is absent), possibly followed
\* by the dependencies lines of a real lock file, or a section that is no
\* package block (the header of the file)
PackageBlock(name, version, more) ==
    [kind |-> "package", name |-> name, version |-> version, more |-> more]

HeaderSection == [kind |-> "header", name |-> <<>>, version |-> <<>>, more |-> FALSE]

DependenciesLines ==
    <<"d", "e", "p", "e", "n", "d", "e", "n", "c", "i", "e", "s">> \o EqSep \o <<"[", NL>>
    \o <<" ">> \o Quoted(<<"a">>) \o <<",", NL, "]", NL>>

\* the line a section opens with: the header alone, the header with a
\* comment behind it, the header indented, the header after an empty line (a
\* third newline before it), another table's header, a comment line before
\* the header
Opening(kind) ==
    CASE kind = "comment" -> PackageHeader \o <<" ", "#", "x", NL>>
      [] kind = "indented" -> <<" ", " ">> \o PackageHeader \o <<NL>>
      [] kind = "blankfirst" -> <<NL>> \o PackageHeader \o <<NL>>
      [] kind = "table" -> <<"[", "[", "p", "a", "t", "c", "h", "]", "]", NL>>
      [] kind = "late" -> <<"#", "x", NL>> \o PackageHeader \o <<NL>>
      [] OTHER -> PackageHeader \o <<NL>>

SectionText(b) ==
    IF b.kind = "header" THEN <<"v", "e", "r", "s", "i", "o", "n", " ", "=", " ", "3", NL>>
    ELSE Opening(b.kind)
         \o (IF Len(b.name) > 0 THEN NameEq \o Quoted(b.name) \o <<NL>> ELSE <<>>)
         \o (IF Len(b.version) > 0 THEN VersionEq \o Quoted(b.version) \o <<NL>> ELSE <<>>)
         \o (IF b.more THEN DependenciesLines ELSE <<>>)

\* the sections with a blank line between them
RECURSIVE ManifestText(_)
ManifestText(blocks) ==
    IF Len(blocks) = 0 THEN <<>>
    ELSE IF Len(blocks) = 1 THEN SectionText(blocks[1])
    ELSE SectionText(blocks[1]) \o <<NL>> \o ManifestText(Tail(blocks))

ManifestSections ==
    {PackageBlock(<<"a">>, <<"1">>, FALSE), PackageBlock(<<"a">>, <<"2">>, FALSE),
     PackageBlock(<<"b">>, <<"1">>, FALSE), PackageBlock(<<"b">>, <<"2">>, TRUE),
     PackageBlock(<<"a">>, <<>>, FALSE), PackageBlock(<<>>, <<"1">>, FALSE),
     HeaderSection}

\* sections that differ in how they open, each with a name and a version line
OpeningSections ==
    {[kind |-> "package", name |-> <<"a">>, version |-> <<"1">>, more |-> FALSE],
     [kind |-> "comment", name |-> <<"b">>, version |-> <<"1">>, more |-> FALSE],
     [kind |-> "indented", name |-> <<"c">>, version |-> <<"1">>, more |-> FALSE],
     [kind |-> "blankfirst", name |-> <<"d">>, version |-> <<"1">>, more |-> FALSE],
     [kind |-> "table", name |-> <<"e">>, version |-> <<"1">>, more |-> FALSE],
     [kind |-> "late", name |-> <<"f">>, version |-> <<"1">>, more |-> FALSE],
     HeaderSection}

OpeningManifests == UNION {[1..n -> OpeningSections] : n \in 0..MaxBlocks}

\* the manifests a caller passes: up to MaxBlocks sections
Manifests == UNION {[1..n -> ManifestSections] : n \in 0..MaxBlocks}

CargoLockLower == <<"c", "a", "r", "g", "o", ".", "l", "o", "c", "k">>

\* the states of the file at the path given: well named and readable,
\* missing, misnamed, unreadable
ManifestFiles(blocks) ==
    {LockFile(TRUE, CargoLock, FALSE, ManifestText(blocks))}
    \cup (IF Len(blocks) > 1 THEN {}
          ELSE {LockFile(FALSE, n, FALSE, <<>>) : n \in {CargoLock, CargoToml}}
               \cup {LockFile(TRUE, n, FALSE, ManifestText(blocks)) : n \in {CargoToml, CargoLockLower}}
               \cup {LockFile(TRUE, CargoLock, TRUE, ManifestText(blocks))})

\* caches to browse: nothing, one directory, two versions of a crate
BrowseCaches ==
    LET put(cache, crate_name, version) ==
            save_docs_to_disk(TRUE, cache, crate_name, version, << <<INDEX, Text1>> >>, NoFault).fs
    IN {EmptyFn,
        put(EmptyFn, <<"b">>, Version1),
        put(put(EmptyFn, CrateA, <<"2">>), CrateA, Version1)}

\* caches earlier calls have left: nothing, a stored entry of crate a, and a
\* directory of crate a holding the index only
StoredBefore ==
    {EmptyFn,
     save_docs_to_disk(TRUE, EmptyFn, CrateA, Version1, << <<INDEX, Text1>> >>, NoFault).fs,
     save_docs_to_disk(TRUE, EmptyFn, CrateA, Version1, <<>>, NoFault).fs}

\* module and features pages carry no anchors the scraper looks at
LeafPages == {Page(m, f, <<>>) : m \in BOOLEAN, f \in BOOLEAN}

\* What happens to one request: the request raises (exc), or it is answered
\* with a status and, for 200, a page; boom names a place after the response
\* where reading or parsing the body raises ("text": before anything is
\* extracted, "links": after the root page's own documentation is stored).
Raises == [exc |-> TRUE, status |-> 0, boom |-> "none", page |-> NoPage]

Answers(status, boom, page) == [exc |-> FALSE, status |-> status, boom |-> boom, page |-> page]

RootResponses(site, crate_name) ==
    {Raises, Answers(404, "none", NoPage)}
    \cup {Answers(404, "none", p) : p \in RootPages(site, crate_name)}
    \cup {Answers(200, b, p) : b \in {"none", "text", "links"}, p \in RootPages(site, crate_name)}

LeafResponses ==
    {Raises}
    \cup {Answers(404, "none", p) : p \in LeafPages}
    \cup {Answers(200, b, p) : b \in {"none", "text"}, p \in LeafPages}

\* one request of the log: the line of code that issued it, and its URL
Request(kind, url) == [kind |-> kind, url |-> url]

(***************************************************************************)
(* State.                                                                  *)
(***************************************************************************)
VARIABLES
    cacheRoot,  \* whether the cache root directory exists
    fs,         \* the cache: directory name -> (file name -> content)
    site,       \* which root pages the remote host serves
    calls,      \* operations invoked so far
    pc,         \* where the running operation stands ("idle": none runs)
    io,         \* the last direct cache operation and what it returned
    scraper,    \* the frame of DocsRsScraper.fetch_crate_docs
    reqs,       \* the URLs requested by the current fetch_crate_docs, in order
    seen,       \* what the current fetch_crate_docs has met so far
    impl,       \* the frame of fetch_crate_docs_impl
    stored,     \* the pairs some fetch_crate_docs_impl fetched and stored successfully
    wf,         \* the frame of fetch_and_save_project_docs_impl
    trail,      \* what the workflow has done: for the current dependency and in all
    savers      \* the concurrent invocations of save_docs_to_disk and where each stands

vars == <<savers, cacheRoot, fs, site, calls, pc, io, scraper, reqs, seen, impl, stored, wf, trail>>

NoSavers == <<>>

NoFile == [exists |-> FALSE, name |-> <<>>, fault |-> FALSE, content |-> <<>>]

\* names: what list returned; query, order, got: the name get-cached-content
\* was asked for, the order the root's entries were yielded in, and its
\* answer; failed: whether reading the cache raised
\* allOk: no store so far has failed; written: the pairs a store has run for
\* with the cache root present; wasWritten: whether the pair of this call was
\* among them at the call
\* fault: the I/O fault the store met; file, blocks: the file given to the manifest reader and the sections its
\* text was written from; deps, steps, caught: what the reader returned and
\* did
NoIo == [op |-> "none", crate_name |-> <<>>, version |-> <<>>, docs |-> <<>>,
         path |-> <<>>, existed |-> FALSE, pre |-> EmptyFn,
         ret |-> [found |-> FALSE, docs |-> <<>>], afterStore |-> FALSE,
         file |-> NoFile, blocks |-> <<>>, deps |-> <<>>, steps |-> <<>>, caught |-> FALSE,
         fault |-> NoFault,
         names |-> <<>>, query |-> <<>>, order |-> <<>>, got |-> NoAnswer, failed |-> FALSE,
         allOk |-> TRUE, written |-> {}, wasWritten |-> FALSE]

\* the frame at the call of fetch_crate_docs: docs = {} (scraper.py 59)
NewScraper(crate_name, version, include_features) ==
    [crate_name |-> crate_name, version |-> version, include_features |-> include_features,
     docs |-> <<>>, module_links |-> <<>>, i |-> 0, entered |-> FALSE, raised |-> FALSE]

NoScraper == NewScraper(<<>>, <<>>, FALSE)

\* rootStatus: the status of the root response (0: none); last: how the last
\* module request ended; failed: some module request raised or was not
\* answered 200; excs: the places where an exception was raised
\* the frame at the call of fetch_crate_docs_impl.  cached: what
\* load_cached_docs returned; ret: the value returned; load, fetched, paths,
\* prior: how the load ended, whether the scraper was run, the paths the
\* stores of this call returned, and whether the pair was in stored at the
\* call; requests: how many requests the scraper had issued when it returned;
\* session: the scraper's aiohttp session ("none": self.session is None)
NewImpl(crate_name, version, include_features, caller, prior) ==
    [crate_name |-> crate_name, version |-> version, include_features |-> include_features,
     caller |-> caller, cached |-> [found |-> FALSE, docs |-> <<>>], ret |-> <<>>,
     load |-> "none", fetched |-> FALSE, requests |-> 0, paths |-> <<>>, prior |-> prior,
     session |-> "none"]

NoImpl == NewImpl(<<>>, <<>>, FALSE, "none", FALSE)

\* the frame of the workflow: the file given, the dependencies read, the
\* first five of them, the index of the current one, the result so far
NewWorkflow(file) ==
    [file |-> file, dependencies |-> <<>>, todo |-> <<>>, k |-> 0,
     saved_paths |-> <<>>]

NoWorkflow == NewWorkflow(NoFile)

\* loads, requests, stores, delays: how many of each the workflow run has
\* made; for the current dependency: hit (its load returned a non-empty
\* set), fetched (the scraper ran), got (its load-or-fetch gave a non-empty
\* set), paths (what its stores returned, in order), saved (what the
\* workflow's own store returned); empties: the crates whose load-or-fetch
\* gave the empty set
NoTrail == [loads |-> 0, requests |-> 0, stores |-> 0, delays |-> 0,
            hit |-> FALSE, fetched |-> FALSE, got |-> FALSE, paths |-> <<>>,
            saved |-> <<>>, empties |-> {}]

NothingSeen == [last |-> "none", failed |-> FALSE, rootStatus |-> 0, excs |-> {}, features |-> "none",
                slept |-> FALSE]

(***************************************************************************)
(* The cache operations invoked directly (save-docs, and the loader).      *)
(***************************************************************************)
\* save_docs_to_disk_impl (core.py 131-146) called with one of the pairs and
\* one of the DocumentSets given
StoreCall(pairs, sets) ==
    /\ pc = "idle" /\ calls < MaxCalls
    /\ \E cv \in pairs, docs \in sets :
         \E fault \in StoreFaults(docs) :
           LET r == save_docs_to_disk(cacheRoot, fs, cv[1], cv[2], docs, fault)
               dir == DirName(cv[1], cv[2])
           IN /\ fs' = r.fs
              /\ io' = [NoIo EXCEPT !.op = "store", !.crate_name = cv[1], !.version = cv[2],
                                    !.docs = docs, !.path = r.path, !.fault = fault,
                                    !.allOk = (io.allOk /\ r.path # StoreFailurePath),
                                    !.written = IF cacheRoot THEN io.written \cup {cv} ELSE io.written,
                                    !.wasWritten = (cv \in io.written),
                                    !.existed = dir \in DOMAIN fs,
                                    !.pre = IF dir \in DOMAIN fs THEN fs[dir] ELSE EmptyFn]
    /\ calls' = calls + 1
    /\ UNCHANGED <<savers, cacheRoot, site, pc, scraper, reqs, seen, impl, stored, wf, trail>>

CallStore == StoreCall(CachePairs, SampleDocs)

\* the set a load returned is stored again for the same pair, as the
\* workflow does after a cache hit (core.py 186-190)
CallStoreLoaded ==
    /\ pc = "idle" /\ calls < MaxCalls
    /\ io.op = "load" /\ io.ret.found /\ Truthy(io.ret.docs)
    /\ \E fault \in StoreFaults(io.ret.docs) :
         LET r == save_docs_to_disk(cacheRoot, fs, io.crate_name, io.version, io.ret.docs, fault)
             dir == DirName(io.crate_name, io.version)
         IN /\ fs' = r.fs
            /\ io' = [NoIo EXCEPT !.op = "restore", !.crate_name = io.crate_name,
                                  !.version = io.version, !.docs = io.ret.docs,
                                  !.path = r.path, !.fault = fault, !.existed = TRUE,
                                  !.allOk = (io.allOk /\ r.path # StoreFailurePath),
                                  !.written = io.written \cup {<<io.crate_name, io.version>>},
                                  !.wasWritten = (<<io.crate_name, io.version>> \in io.written),
                                  !.pre = fs[dir]]
    /\ calls' = calls + 1
    /\ UNCHANGED <<savers, cacheRoot, site, pc, scraper, reqs, seen, impl, stored, wf, trail>>

CallLoad ==
    /\ pc = "idle" /\ calls < MaxCalls
    /\ \E cv \in CachePairs, fault \in BOOLEAN :
         \E order \in LoadOrders(cacheRoot, fs, cv[1], cv[2]) :
           LET r == load_cached_docs(cacheRoot, fs, cv[1], cv[2], order, fault)
               follows == /\ io.op = "store" /\ io.path # StoreFailurePath
                          /\ io.crate_name = cv[1] /\ io.version = cv[2]
           IN io' = [NoIo EXCEPT !.op = "load", !.crate_name = cv[1], !.version = cv[2],
                                 !.ret = r, !.afterStore = follows, !.allOk = io.allOk,
                                 !.written = io.written, !.wasWritten = (cv \in io.written),
                                 !.docs = IF follows THEN io.docs ELSE <<>>,
                                 !.existed = IF follows THEN io.existed ELSE FALSE,
                                 !.pre = IF follows THEN io.pre ELSE EmptyFn]
    /\ calls' = calls + 1
    /\ UNCHANGED <<savers, cacheRoot, fs, site, pc, scraper, reqs, seen, impl, stored, wf, trail>>

(***************************************************************************)
(* DocsRsScraper.fetch_crate_docs (scraper.py 40-134), one action per      *)
(* request or delay.                                                       *)
(***************************************************************************)
\* for module_path, module_url in module_links[:10]
ModuleLimit == 10

AllLinks(module_links) == module_links

FirstLinks(module_links) ==
    SubSeq(module_links, 1, IF Len(module_links) < ModuleLimit THEN Len(module_links) ELSE ModuleLimit)

RootNeverRejected(status) == FALSE

\* if response.status != 200: ... return docs
RootRejected(status) == status # 200

\* Which try statement catches an exception raised at a place: the module
\* request's own (100-115), the features request's own (216-235), and the
\* outermost one (63-132) around everything.
HandlerWithoutModuleTry(place) ==
    CASE place = "features" -> "features"
      [] OTHER -> "outer"

HandlerWithoutOuterTry(place) ==
    CASE place = "module" -> "module"
      [] place = "features" -> "features"
      [] OTHER -> "none"

Handler(place) ==
    CASE place = "module" -> "module"
      [] place = "features" -> "features"
      [] OTHER -> "outer"

FetchRoot ==
    /\ pc = "fetch_root"
    /\ \E resp \in RootResponses(site, scraper.crate_name) :
         LET base_url == BaseUrl(scraper.crate_name, scraper.version)
             main_doc == extract_documentation(resp.page, base_url, MainTitle(scraper.crate_name))
             docs1 == IF main_doc # EmptyStr THEN DictSet(scraper.docs, INDEX, main_doc)
                      ELSE scraper.docs
             caught(frame) == IF Handler("root") = "outer" THEN frame
                              ELSE [frame EXCEPT !.raised = TRUE]
             place == IF resp.exc THEN {"root"}
                      ELSE IF RootRejected(resp.status) \/ resp.boom = "none" THEN {}
                      ELSE {resp.boom}
         IN /\ reqs' = Append(reqs, Request("root", base_url))
            /\ seen' = [seen EXCEPT !.rootStatus = resp.status, !.excs = @ \cup place]
            /\ IF resp.exc \/ (~RootRejected(resp.status) /\ resp.boom = "text")
               THEN scraper' = caught(scraper) /\ pc' = "fetch_return"
               ELSE IF RootRejected(resp.status)
               THEN scraper' = scraper /\ pc' = "fetch_return"
               ELSE IF resp.boom = "links"
               THEN scraper' = caught([scraper EXCEPT !.docs = docs1]) /\ pc' = "fetch_return"
               ELSE /\ scraper' = [scraper EXCEPT
                                      !.docs = docs1,
                                      !.module_links = find_module_links(resp.page.anchors, base_url),
                                      !.i = 1, !.entered = TRUE]
                    /\ pc' = "fetch_module"
    /\ trail' = [trail EXCEPT !.requests = @ + 1]
    /\ UNCHANGED <<savers, cacheRoot, fs, site, calls, io, impl, stored, wf>>

LoopTailStuck(i, raised) ==
    [pc |-> IF raised THEN "fetch_module" ELSE "fetch_sleep", i |-> i]

LoopTailWithoutDelay(i, raised) == [pc |-> "fetch_module", i |-> i + 1]

\* the end of one iteration: continue in the except clause (scraper.py 115),
\* else await asyncio.sleep(0.5) (118) before the next link
LoopTail(i, raised) ==
    IF raised THEN [pc |-> "fetch_module", i |-> i + 1]
    ELSE [pc |-> "fetch_sleep", i |-> i]

\* the remaining links requested together, none awaited before the next
FetchModulesGathered ==
    /\ pc = "fetch_module"
    /\ scraper.i <= Len(FirstLinks(scraper.module_links))
    /\ LET n == Len(FirstLinks(scraper.module_links))
           rest == SubSeq(scraper.module_links, scraper.i, n)
       IN /\ reqs' = reqs \o [j \in DOMAIN rest |-> Request("module", rest[j][2])]
          /\ trail' = [trail EXCEPT !.requests = @ + Len(rest)]
          /\ scraper' = [scraper EXCEPT !.i = n + 1]
    /\ seen' = [seen EXCEPT !.last = "status", !.failed = TRUE]
    /\ pc' = "fetch_module"
    /\ UNCHANGED <<savers, cacheRoot, fs, site, calls, io, impl, stored, wf>>

\* one iteration of the module loop up to its delay
FetchModule ==
    /\ pc = "fetch_module"
    /\ scraper.i <= Len(FirstLinks(scraper.module_links))
    /\ \E resp \in LeafResponses :
         LET module_path == scraper.module_links[scraper.i][1]
             module_url == scraper.module_links[scraper.i][2]
             mod_doc == extract_documentation(resp.page, module_url, module_path)
         IN /\ reqs' = Append(reqs, Request("module", module_url))
            /\ IF resp.exc \/ (resp.status = 200 /\ resp.boom = "text")
               THEN /\ seen' = [seen EXCEPT !.last = "exc", !.failed = TRUE,
                                            !.excs = @ \cup {"module"}, !.slept = FALSE]
                    /\ IF Handler("module") = "module"
                       THEN /\ scraper' = [scraper EXCEPT !.i = LoopTail(@, TRUE).i]
                            /\ pc' = LoopTail(scraper.i, TRUE).pc
                       ELSE IF Handler("module") = "outer"
                       THEN scraper' = scraper /\ pc' = "fetch_return"
                       ELSE scraper' = [scraper EXCEPT !.raised = TRUE] /\ pc' = "fetch_return"
               ELSE /\ seen' = IF resp.status = 200 THEN [seen EXCEPT !.last = "ok", !.slept = FALSE]
                               ELSE [seen EXCEPT !.last = "status", !.failed = TRUE, !.slept = FALSE]
                    /\ scraper' = IF resp.status = 200 /\ mod_doc # EmptyStr
                                  THEN [scraper EXCEPT !.docs = DictSet(@, module_path, mod_doc),
                                                       !.i = LoopTail(@, FALSE).i]
                                  ELSE [scraper EXCEPT !.i = LoopTail(@, FALSE).i]
                    /\ pc' = LoopTail(scraper.i, FALSE).pc
    /\ trail' = [trail EXCEPT !.requests = @ + 1]
    /\ UNCHANGED <<savers, cacheRoot, fs, site, calls, io, impl, stored, wf>>

\* await asyncio.sleep(0.5), then the next link
FetchSleep ==
    /\ pc = "fetch_sleep"
    /\ scraper' = [scraper EXCEPT !.i = @ + 1]
    /\ pc' = "fetch_module"
    /\ seen' = [seen EXCEPT !.slept = TRUE]
    /\ UNCHANGED <<savers, cacheRoot, fs, site, calls, io, reqs, impl, stored, wf, trail>>

\* the loop is exhausted: if include_features, on to the features request
FetchLoopEnd ==
    /\ pc = "fetch_module"
    /\ scraper.i > Len(FirstLinks(scraper.module_links))
    /\ pc' = IF scraper.include_features THEN "fetch_features" ELSE "fetch_return"
    /\ UNCHANGED <<savers, cacheRoot, fs, site, calls, io, scraper, reqs, seen, impl, stored, wf, trail>>

\* _fetch_feature_flags (scraper.py 194-235) and docs["features"] = features_doc
FetchFeatures ==
    /\ pc = "fetch_features"
    /\ \E resp \in LeafResponses :
         LET features_url == FeaturesUrl(scraper.crate_name, scraper.version)
             features_doc == IF resp.status = 200
                             THEN parse_feature_flags(resp.page, features_url, scraper.crate_name)
                             ELSE EmptyStr
         IN /\ reqs' = Append(reqs, Request("features", features_url))
            /\ IF resp.exc \/ (resp.status = 200 /\ resp.boom = "text")
               THEN /\ scraper' = IF Handler("features") \in {"features", "outer"} THEN scraper
                                  ELSE [scraper EXCEPT !.raised = TRUE]
                    /\ seen' = [seen EXCEPT !.excs = @ \cup {"features"}, !.features = "exc"]
               ELSE /\ scraper' = IF features_doc # EmptyStr
                                  THEN [scraper EXCEPT !.docs = DictSet(@, FEATURES, features_doc)]
                                  ELSE scraper
                    /\ seen' = [seen EXCEPT !.features =
                                    IF resp.status # 200 THEN "status"
                                    ELSE IF resp.page.features THEN "stored" ELSE "empty"]
    /\ pc' = "fetch_return"
    /\ trail' = [trail EXCEPT !.requests = @ + 1]
    /\ UNCHANGED <<savers, cacheRoot, fs, site, calls, io, impl, stored, wf>>

(***************************************************************************)
(* fetch_crate_docs_impl (core.py 75-128).                                 *)
(***************************************************************************)
\* the pairs fetch-docs is invoked on
DocsPairs == {<<CrateA, Version1>>}

\* the exposed operation fetch-docs is invoked
CallFetchDocs ==
    /\ pc = "idle" /\ calls < MaxCalls
    /\ \E cv \in DocsPairs, include_features \in BOOLEAN :
         impl' = NewImpl(cv[1], cv[2], include_features, "client", cv \in stored)
    /\ calls' = calls + 1
    /\ pc' = "impl_load"
    /\ UNCHANGED <<savers, cacheRoot, fs, site, io, scraper, reqs, seen, stored, wf, trail>>

\* DocsRsScraper.__aenter__: self.session = aiohttp.ClientSession(...)
aenter(session) == "open"

aexitLeavesOpen(session) == session

\* DocsRsScraper.__aexit__: if self.session: await self.session.close()
aexit(session) == IF session # "none" THEN "closed" ELSE session

HitResultWithFeatures(cached, include_features) ==
    IF include_features THEN DictSet(cached.docs, FEATURES, Text1) ELSE cached.docs

\* return cached_docs (core.py 97): include_features plays no part
HitResult(cached, include_features) == cached.docs

CacheNeverHits(cached) == FALSE

CacheHitsWhenFound(cached) == cached.found

\* if cached_docs: (None and the empty dict are both falsy)
CacheHit(cached) == cached.found /\ Truthy(cached.docs)

\* cached_docs = await load_cached_docs(...); on a hit return it, else enter
\* async with DocsRsScraper() and call fetch_crate_docs
ImplLoad ==
    /\ pc = "impl_load"
    /\ \E fault \in BOOLEAN :
         \E order \in LoadOrders(cacheRoot, fs, impl.crate_name, impl.version) :
           LET cached == load_cached_docs(cacheRoot, fs, impl.crate_name, impl.version, order, fault)
               how == IF cached.found THEN (IF Truthy(cached.docs) THEN "hit" ELSE "empty")
                      ELSE IF cacheRoot /\ DirName(impl.crate_name, impl.version) \in DOMAIN fs
                           THEN "fault" ELSE "absent"
           IN /\ IF CacheHit(cached)
                 THEN /\ impl' = [impl EXCEPT !.cached = cached, !.load = how,
                                              !.ret = HitResult(cached, impl.include_features)]
                      /\ pc' = "impl_return"
                      /\ UNCHANGED <<scraper, reqs, seen>>
                 ELSE /\ impl' = [impl EXCEPT !.cached = cached, !.load = how, !.fetched = TRUE,
                                              !.session = aenter(@)]
                      /\ scraper' = NewScraper(impl.crate_name, impl.version, impl.include_features)
                      /\ reqs' = <<>>
                      /\ seen' = NothingSeen
                      /\ pc' = "fetch_root"
              /\ trail' = [trail EXCEPT !.loads = @ + 1, !.hit = (how = "hit"),
                                        !.fetched = (pc' = "fetch_root")]
    /\ UNCHANGED <<savers, cacheRoot, fs, site, calls, io, stored, wf>>

\* fetch_crate_docs is over and its frame is left: if docs, save them (the
\* path is dropped) and return docs; an exception out of the scraper returns {}
ImplAfterFetch ==
    /\ pc = "fetch_return"
    /\ impl.caller # "none"
    /\ LET docs == scraper.docs
           back == [impl EXCEPT !.requests = Len(reqs), !.session = aexit(@)]
       IN IF scraper.raised
          THEN /\ impl' = [back EXCEPT !.ret = <<>>]
               /\ UNCHANGED <<fs, stored, trail>>
          ELSE IF Truthy(docs)
          THEN \E fault \in StoreFaults(docs) :
                 LET r == save_docs_to_disk(cacheRoot, fs, impl.crate_name, impl.version, docs, fault)
                 IN /\ fs' = r.fs
                    /\ impl' = [back EXCEPT !.ret = docs, !.paths = Append(@, r.path)]
                    /\ stored' = IF r.path # StoreFailurePath
                                 THEN stored \cup {<<impl.crate_name, impl.version>>}
                                 ELSE stored
                    /\ trail' = [trail EXCEPT !.stores = @ + 1, !.paths = Append(@, r.path)]
          ELSE /\ impl' = [back EXCEPT !.ret = docs]
               /\ UNCHANGED <<fs, stored, trail>>
    /\ scraper' = NoScraper
    /\ reqs' = <<>>
    /\ seen' = NothingSeen
    /\ pc' = "impl_return"
    /\ UNCHANGED <<savers, cacheRoot, site, calls, io, wf>>

\* the value is handed to the caller of the exposed operation
ClientReturn ==
    /\ pc = "impl_return"
    /\ impl.caller = "client"
    /\ impl' = NoImpl
    /\ pc' = "idle"
    /\ UNCHANGED <<savers, cacheRoot, fs, site, calls, io, scraper, reqs, seen, stored, wf, trail>>

(***************************************************************************)
(* fetch_and_save_project_docs_impl (core.py 149-203).                     *)
(***************************************************************************)
\* list(dependencies.items())[:5]
DepLimit == 5

EveryDependency(dependencies) == dependencies

FirstDependencies(dependencies) ==
    SubSeq(dependencies, 1, IF Len(dependencies) < DepLimit THEN Len(dependencies) ELSE DepLimit)

AnyPathGiven(saved_path) == TRUE

\* if saved_path: (the empty string is falsy)
PathGiven(saved_path) == Len(saved_path) > 0

\* dependencies = await read_cargo_lock_impl(...); if not dependencies: return {}
WfRead ==
    /\ pc = "wf_read"
    /\ LET dependencies == read_cargo_lock_impl(wf.file)
       IN IF ~Truthy(dependencies)
          THEN /\ wf' = [wf EXCEPT !.dependencies = dependencies]
               /\ pc' = "wf_return"
          ELSE /\ wf' = [wf EXCEPT !.dependencies = dependencies,
                                   !.todo = FirstDependencies(dependencies), !.k = 1]
               /\ pc' = "wf_dep"
    /\ UNCHANGED <<savers, cacheRoot, fs, site, calls, io, scraper, reqs, seen, impl, stored, trail>>

\* the next (crate_name, version) of the loop: docs = await fetch_crate_docs_impl(...)
WfDep ==
    /\ pc = "wf_dep"
    /\ wf.k <= Len(wf.todo)
    /\ LET dep == wf.todo[wf.k]
       IN impl' = NewImpl(dep[1], dep[2], FALSE, "workflow", <<dep[1], dep[2]>> \in stored)
    /\ trail' = [trail EXCEPT !.hit = FALSE, !.fetched = FALSE, !.got = FALSE,
                              !.paths = <<>>, !.saved = <<>>]
    /\ pc' = "impl_load"
    /\ UNCHANGED <<savers, cacheRoot, fs, site, calls, io, scraper, reqs, seen, stored, wf>>

\* if docs: saved_path = await save_docs_to_disk_impl(...);
\* if saved_path: saved_paths[crate_name] = saved_path
WfSave ==
    /\ pc = "impl_return"
    /\ impl.caller = "workflow"
    /\ LET docs == impl.ret
       IN IF Truthy(docs)
          THEN \E fault \in StoreFaults(docs) :
                 LET r == save_docs_to_disk(cacheRoot, fs, impl.crate_name, impl.version, docs, fault)
                 IN /\ fs' = r.fs
                    /\ wf' = IF PathGiven(r.path)
                             THEN [wf EXCEPT !.saved_paths = DictSet(@, impl.crate_name, r.path)]
                             ELSE wf
                    /\ trail' = [trail EXCEPT !.stores = @ + 1, !.paths = Append(@, r.path),
                                              !.got = TRUE, !.saved = r.path]
          ELSE /\ trail' = [trail EXCEPT !.empties = @ \cup {impl.crate_name}]
               /\ UNCHANGED <<fs, wf>>
    /\ impl' = NoImpl
    /\ pc' = "wf_sleep"
    /\ UNCHANGED <<savers, cacheRoot, site, calls, io, scraper, reqs, seen, stored>>

\* await asyncio.sleep(1), then the next dependency
WfSleep ==
    /\ pc = "wf_sleep"
    /\ wf' = [wf EXCEPT !.k = @ + 1]
    /\ trail' = [trail EXCEPT !.delays = @ + 1]
    /\ pc' = "wf_dep"
    /\ UNCHANGED <<savers, cacheRoot, fs, site, calls, io, scraper, reqs, seen, impl, stored>>

\* the loop is exhausted: return saved_paths
WfDone ==
    /\ pc = "wf_dep"
    /\ wf.k > Len(wf.todo)
    /\ pc' = "wf_return"
    /\ UNCHANGED <<savers, cacheRoot, fs, site, calls, io, scraper, reqs, seen, impl, stored, wf, trail>>

(***************************************************************************)
(* The cache browsed (list_cached_documentation, get-cached-content).      *)
(***************************************************************************)
\* save-docs while the cache is browsed
BrowsePairs == {<<CrateAB, Version1>>}

BrowseDocs == {<< <<INDEX, Text1>> >>}

BrowseStore == StoreCall(BrowsePairs, BrowseDocs)

\* list_cached_documentation_impl; the record keeps the store it follows
CallList ==
    /\ pc = "idle" /\ calls < MaxCalls
    /\ \E order \in IterOrders(fs), fault \in BOOLEAN :
         io' = [NoIo EXCEPT !.op = "list",
                            !.names = list_cached_documentation_impl(cacheRoot, fs, order, fault),
                            !.failed = cacheRoot /\ fault,
                            !.afterStore = (io.op = "store"),
                            !.crate_name = IF io.op = "store" THEN io.crate_name ELSE <<>>,
                            !.version = IF io.op = "store" THEN io.version ELSE <<>>,
                            !.path = IF io.op = "store" THEN io.path ELSE <<>>,
                            !.fault = IF io.op = "store" THEN io.fault ELSE NoFault]
    /\ calls' = calls + 1
    /\ UNCHANGED <<savers, cacheRoot, fs, site, pc, scraper, reqs, seen, impl, stored, wf, trail>>

\* the package names get-cached-content is asked for
Queries == {<<"a">>, <<"a", "-", "b">>, <<"b">>, <<"a", "-", "2">>}

CallGet ==
    /\ pc = "idle" /\ calls < MaxCalls
    /\ \E crate_name \in Queries, order \in IterOrders(fs), fault \in BOOLEAN :
         io' = [NoIo EXCEPT !.op = "get", !.query = crate_name, !.order = order,
                            !.failed = cacheRoot /\ fault,
                            !.got = get_cached_doc_content_impl(cacheRoot, fs, crate_name, order, fault)]
    /\ calls' = calls + 1
    /\ UNCHANGED <<savers, cacheRoot, fs, site, pc, scraper, reqs, seen, impl, stored, wf, trail>>

(***************************************************************************)
(* The manifest reader invoked directly (read_cargo_lock), and the parser. *)
(***************************************************************************)
\* read_cargo_lock_impl on the file given
CallReadManifest ==
    /\ pc = "idle" /\ io.op = "none"
    /\ LET r == read_cargo_lock_steps(io.file)
       IN io' = [io EXCEPT !.op = "read_manifest", !.deps = r.ret, !.steps = r.steps,
                           !.caught = r.caught]
    /\ calls' = calls + 1
    /\ UNCHANGED <<savers, cacheRoot, fs, site, pc, scraper, reqs, seen, impl, stored, wf, trail>>

\* CargoLockParser.parse_cargo_lock on the text of the file given, if there
\* is one
CallParse ==
    /\ pc = "idle" /\ io.op = "none" /\ io.file.exists
    /\ io' = [io EXCEPT !.op = "parse", !.deps = parse_cargo_lock(io.file.content)]
    /\ calls' = calls + 1
    /\ UNCHANGED <<savers, cacheRoot, fs, site, pc, scraper, reqs, seen, impl, stored, wf, trail>>

(***************************************************************************)
(* Specifications.                                                         *)
(***************************************************************************)
\* save-docs and the loader, invoked one after the other on an empty cache
InitCache ==
    /\ savers = NoSavers
    /\ cacheRoot \in BOOLEAN
    /\ fs = EmptyFn
    /\ site = "none"
    /\ calls = 0
    /\ pc = "idle"
    /\ io = NoIo
    /\ scraper = NoScraper
    /\ reqs = <<>>
    /\ seen = NothingSeen
    /\ impl = NoImpl
    /\ stored = {}
    /\ wf = NoWorkflow
    /\ trail = NoTrail

NextCache == CallStore \/ CallLoad \/ CallStoreLoaded

SpecCache == InitCache /\ [][NextCache]_vars

\* one call of fetch_crate_docs against a host serving pages with many links
InitFetch ==
    /\ savers = NoSavers
    /\ cacheRoot = TRUE
    /\ fs = EmptyFn
    /\ site = "large"
    /\ calls = 1
    /\ pc = "fetch_root"
    /\ io = NoIo
    /\ \E inc \in BOOLEAN : scraper = NewScraper(CrateA, Version1, inc)
    /\ reqs = <<>>
    /\ seen = NothingSeen
    /\ impl = NoImpl
    /\ stored = {}
    /\ wf = NoWorkflow
    /\ trail = NoTrail

NextFetch == FetchRoot \/ FetchModule \/ FetchSleep \/ FetchLoopEnd \/ FetchFeatures

SpecFetch == InitFetch /\ [][NextFetch]_vars

\* one call of fetch_crate_docs on root pages whose links lead elsewhere
InitLinks ==
    /\ savers = NoSavers
    /\ cacheRoot = TRUE
    /\ fs = EmptyFn
    /\ site = "links"
    /\ calls = 1
    /\ pc = "fetch_root"
    /\ io = NoIo
    /\ \E inc \in BOOLEAN : scraper = NewScraper(CrateA, Version1, inc)
    /\ reqs = <<>>
    /\ seen = NothingSeen
    /\ impl = NoImpl
    /\ stored = {}
    /\ wf = NoWorkflow
    /\ trail = NoTrail

NextLinks == FetchRoot \/ FetchModule \/ FetchSleep \/ FetchLoopEnd \/ FetchFeatures

SpecLinks == InitLinks /\ [][NextLinks]_vars

\* fetch-docs invoked again and again on a cache that starts empty
Init ==
    /\ savers = NoSavers
    /\ cacheRoot \in BOOLEAN
    /\ fs = EmptyFn
    /\ site = "small"
    /\ calls = 0
    /\ pc = "idle"
    /\ io = NoIo
    /\ scraper = NoScraper
    /\ reqs = <<>>
    /\ seen = NothingSeen
    /\ impl = NoImpl
    /\ stored = {}
    /\ wf = NoWorkflow
    /\ trail = NoTrail

Next ==
    \/ CallFetchDocs \/ ImplLoad
    \/ FetchRoot \/ FetchModule \/ FetchSleep \/ FetchLoopEnd \/ FetchFeatures
    \/ ImplAfterFetch \/ ClientReturn

Spec == Init /\ [][Next]_vars

\* one run of the workflow on a lock file, over a cache earlier calls left
InitWorkflow ==
    /\ savers = NoSavers
    /\ fs \in StoredBefore
    /\ cacheRoot \in (IF fs = EmptyFn THEN BOOLEAN ELSE {TRUE})
    /\ site = "registry"
    /\ calls = 1
    /\ pc = "wf_read"
    /\ io = NoIo
    /\ scraper = NoScraper
    /\ reqs = <<>>
    /\ seen = NothingSeen
    /\ impl = NoImpl
    /\ stored = {}
    /\ \E file \in LockFiles : wf = NewWorkflow(file)
    /\ trail = NoTrail

NextWorkflow ==
    \/ WfRead \/ WfDep \/ ImplLoad
    \/ FetchRoot \/ FetchModule \/ FetchSleep \/ FetchLoopEnd
    \/ ImplAfterFetch \/ WfSave \/ WfSleep \/ WfDone

SpecWorkflow == InitWorkflow /\ [][NextWorkflow]_vars

\* one call of fetch_crate_docs on a root page without links or with more
\* links than the loop takes, or one run of the workflow on a lock file with
\* more dependencies than it takes or on a missing file; every step is taken
\* once it can be: each request and file operation completes or fails
InitRuns ==
    /\ savers = NoSavers
    /\ calls = 1
    /\ io = NoIo
    /\ reqs = <<>>
    /\ seen = NothingSeen
    /\ impl = NoImpl
    /\ stored = {}
    /\ trail = NoTrail
    /\ \/ /\ cacheRoot = TRUE
          /\ fs = EmptyFn
          /\ site = "long"
          /\ pc = "fetch_root"
          /\ \E inc \in BOOLEAN : scraper = NewScraper(CrateA, Version1, inc)
          /\ wf = NoWorkflow
       \/ /\ fs \in StoredBefore
          /\ cacheRoot \in (IF fs = EmptyFn THEN BOOLEAN ELSE {TRUE})
          /\ site = "registry"
          /\ pc = "wf_read"
          /\ scraper = NoScraper
          /\ \E file \in RunFiles : wf = NewWorkflow(file)

RunStep ==
    \/ WfDep \/ ImplLoad
    \/ FetchRoot \/ FetchModule \/ FetchSleep \/ FetchLoopEnd \/ FetchFeatures
    \/ ImplAfterFetch \/ WfSave \/ WfSleep \/ WfDone

NextRuns == WfRead \/ RunStep

SpecRuns == InitRuns /\ [][NextRuns]_vars /\ WF_vars(RunStep)

\* save-docs, list and get-cached-content, one after the other on a cache
\* earlier calls left
InitBrowse ==
    /\ savers = NoSavers
    /\ fs \in BrowseCaches
    /\ cacheRoot \in (IF fs = EmptyFn THEN BOOLEAN ELSE {TRUE})
    /\ site = "none"
    /\ calls = 0
    /\ pc = "idle"
    /\ io = NoIo
    /\ scraper = NoScraper
    /\ reqs = <<>>
    /\ seen = NothingSeen
    /\ impl = NoImpl
    /\ stored = {}
    /\ wf = NoWorkflow
    /\ trail = NoTrail

NextBrowse == BrowseStore \/ CallList \/ CallGet

SpecBrowse == InitBrowse /\ [][NextBrowse]_vars

\* one call of the manifest reader, or of the parser, on a file given
InitManifest ==
    /\ savers = NoSavers
    /\ cacheRoot = TRUE
    /\ fs = EmptyFn
    /\ site = "none"
    /\ calls = 0
    /\ pc = "idle"
    /\ \E blocks \in Manifests : \E file \in ManifestFiles(blocks) :
          io = [NoIo EXCEPT !.file = file, !.blocks = blocks]
    /\ scraper = NoScraper
    /\ reqs = <<>>
    /\ seen = NothingSeen
    /\ impl = NoImpl
    /\ stored = {}
    /\ wf = NoWorkflow
    /\ trail = NoTrail

NextManifest == CallReadManifest \/ CallParse

SpecManifest == InitManifest /\ [][NextManifest]_vars

\* the parser called on manifests whose sections open in different ways
InitOpenings ==
    /\ savers = NoSavers
    /\ cacheRoot = TRUE
    /\ fs = EmptyFn
    /\ site = "none"
    /\ calls = 0
    /\ pc = "idle"
    /\ \E blocks \in OpeningManifests :
          io = [NoIo EXCEPT !.file = LockFile(TRUE, CargoLock, FALSE, ManifestText(blocks)),
                            !.blocks = blocks]
    /\ scraper = NoScraper
    /\ reqs = <<>>
    /\ seen = NothingSeen
    /\ impl = NoImpl
    /\ stored = {}
    /\ wf = NoWorkflow
    /\ trail = NoTrail

NextOpenings == CallParse

SpecOpenings == InitOpenings /\ [][NextOpenings]_vars

(***************************************************************************)
(* Two invocations of save_docs_to_disk for one package and version that   *)
(* run at the same time (two processes, or two coroutines interleaved at   *)
(* the awaits of scraper.py 408-409 and 427-428).  Each invocation steps   *)
(* through mkdir, then per file open(..., 'w') and write-and-close, the     *)
(* index README.md last.                                                   *)
(***************************************************************************)
RacePair == <<CrateA, Version1>>

\* the DocumentSets the two invocations were handed
RaceDocs ==
    { << <<INDEX, Text1>>, <<<<"a">>, Text1>> >>,
      << <<INDEX, Text2>>, <<<<"a">>, Text2>> >>,
      << <<INDEX, Text1>> >> }

NewSaver(docs) == [docs |-> docs, at |-> "mkdir", i |-> 0]

\* the i-th file an invocation writes and what it writes there
SaverFile(s) ==
    IF s.i <= Len(s.docs) THEN FileNameOf(s.docs[s.i][1]) ELSE ReadmeFile

SaverContent(s) ==
    IF s.i <= Len(s.docs) THEN s.docs[s.i][2]
    ELSE IndexContent(RacePair[1], RacePair[2], s.docs)

\* A write starts at offset 0 of what the file holds by then: over an empty
\* file or over the same content it leaves the content written; over other
\* content it leaves the content written, followed by the tail of the other
\* when that was longer.
Overlay(content, under) == [kind |-> "overlay", head |-> content, tail |-> under]

WriteOutcomes(old, content) ==
    IF old = EmptyStr \/ old = content THEN {content}
    ELSE {content, Overlay(content, old)}

RaceDir == DirName(RacePair[1], RacePair[2])

\* crate_dir.mkdir(exist_ok=True)
SaverMkdir ==
    /\ pc = "race"
    /\ \E p \in DOMAIN savers :
         /\ savers[p].at = "mkdir"
         /\ fs' = IF RaceDir \in DOMAIN fs THEN fs
                  ELSE [x \in DOMAIN fs \cup {RaceDir} |-> IF x = RaceDir THEN EmptyFn ELSE fs[x]]
         /\ savers' = [savers EXCEPT ![p].at = "open", ![p].i = 1]
    /\ UNCHANGED <<cacheRoot, site, calls, pc, io, scraper, reqs, seen, impl, stored, wf, trail>>

\* aiofiles.open(file_path, 'w'): the file is created or truncated
SaverOpen ==
    /\ pc = "race"
    /\ \E p \in DOMAIN savers :
         /\ savers[p].at = "open"
         /\ fs' = [fs EXCEPT ![RaceDir] = FilePut(@, SaverFile(savers[p]), EmptyStr)]
         /\ savers' = [savers EXCEPT ![p].at = "write"]
    /\ UNCHANGED <<cacheRoot, site, calls, pc, io, scraper, reqs, seen, impl, stored, wf, trail>>

\* await f.write(content) and the close that flushes it
SaverWrite ==
    /\ pc = "race"
    /\ \E p \in DOMAIN savers :
         LET s == savers[p]
             name == SaverFile(s)
         IN /\ s.at = "write"
            /\ \E c \in WriteOutcomes(fs[RaceDir][name], SaverContent(s)) :
                  fs' = [fs EXCEPT ![RaceDir] = FilePut(@, name, c)]
            /\ savers' = [savers EXCEPT ![p].at = IF s.i > Len(s.docs) THEN "done" ELSE "open",
                                        ![p].i = s.i + 1]
    /\ UNCHANGED <<cacheRoot, site, calls, pc, io, scraper, reqs, seen, impl, stored, wf, trail>>

\* two invocations on an empty cache
InitRace ==
    /\ savers \in {<<NewSaver(d), NewSaver(e)>> : d \in RaceDocs, e \in RaceDocs}
    /\ cacheRoot = TRUE
    /\ fs = EmptyFn
    /\ site = "none"
    /\ calls = 0
    /\ pc = "race"
    /\ io = NoIo
    /\ scraper = NoScraper
    /\ reqs = <<>>
    /\ seen = NothingSeen
    /\ impl = NoImpl
    /\ stored = {}
    /\ wf = NoWorkflow
    /\ trail = NoTrail

NextRace == SaverMkdir \/ SaverOpen \/ SaverWrite

SpecRace == InitRace /\ [][NextRace]_vars

(***************************************************************************)
(* Properties.                                                             *)
(***************************************************************************)
FetchStates == {"fetch_root", "fetch_module", "fetch_sleep", "fetch_features"}

\* fetch_crate_docs has been called and is over
FetchOver == Len(reqs) > 0 /\ pc \notin FetchStates

ModuleReqs == SelectSeq(reqs, LAMBDA r : r.kind = "module")

NoReserved(docs) == \A k \in Keys(docs) : \A i \in DOMAIN k : k[i] \notin ReservedChars

\* a load that returned a mapping, right after a successful store of io.docs
\* for the same package and version
StoredThenLoaded == io.op = "load" /\ io.afterStore /\ io.ret.found

C3_RootFailureReturnsEmpty ==
    (seen.rootStatus \notin {0, 200}) =>
        /\ pc \notin FetchStates
        /\ scraper.docs = <<>>
        /\ Len(reqs) = 1 /\ reqs[1].kind = "root"
        /\ ~scraper.raised

C3_Witness == seen.rootStatus = 404 /\ FetchOver /\ scraper.include_features

\* C4: one fetch issues at most 10 module requests, the j-th of them for the
\* j-th discovered link, whatever the number of links and the outcomes.
C4_AtMostTenModuleRequests ==
    /\ Len(ModuleReqs) <= 10
    /\ \A j \in DOMAIN ModuleReqs :
          /\ ModuleReqs[j].url = scraper.module_links[j][2]
          /\ ModuleReqs[j].url = BaseUrl(scraper.crate_name, scraper.version) \o <<Letters[j], "/">>

C4_Witness ==
    /\ FetchOver /\ Len(scraper.module_links) > 10 /\ Len(ModuleReqs) = 10
    /\ seen.failed /\ Len(scraper.docs) > 0

\* C5: a module request that raises or is not answered 200 leaves the
\* collected sections as they are and the loop running: once the loop has
\* been entered, fetch ends with each of the first 10 links requested, and no
\* step of fetch drops a collected key.
C5_LoopComplete ==
    (FetchOver /\ scraper.entered) =>
        Len(ModuleReqs) = (IF Len(scraper.module_links) < 10 THEN Len(scraper.module_links) ELSE 10)

C5_FailureKeepsSections ==
    /\ (pc = "fetch_module" /\ reqs' # reqs /\ seen'.last \in {"exc", "status"})
          => (scraper'.docs = scraper.docs /\ pc' \in {"fetch_module", "fetch_sleep"})
    /\ (pc \in FetchStates) => (Keys(scraper.docs) \subseteq Keys(scraper'.docs))

C5_FailureDoesNotAbort == []C5_LoopComplete /\ [][C5_FailureKeepsSections]_vars

\* a failed link followed by a link that was fetched, all ten requested
C5_Witness ==
    /\ FetchOver /\ scraper.entered /\ Len(ModuleReqs) = 10
    /\ "module" \in seen.excs /\ seen.last = "ok" /\ Len(scraper.docs) > 1

\* C6: fetch never leaves by an exception, wherever a request or the parsing
\* of its answer raises: it ends by returning a DocumentSet (distinct keys,
\* no empty section), and until then it can always take its next step.
C6_FetchNeverRaises ==
    /\ ~scraper.raised
    /\ Cardinality(Keys(scraper.docs)) = Len(scraper.docs)
    /\ \A i \in DOMAIN scraper.docs : scraper.docs[i][2] # EmptyStr
    /\ (pc \in FetchStates) => ENABLED NextFetch

\* a fetch that met an exception in a module request and in the features
\* request and returned a partial set
C6_Witness ==
    /\ FetchOver /\ {"module", "features"} \subseteq seen.excs
    /\ Len(scraper.docs) > 0

C6_WitnessRoot == FetchOver /\ seen.excs \cap {"root", "text", "links"} # {}

\* C1: once a fetch-docs for a package and version has fetched a non-empty
\* set and stored it successfully, a later fetch-docs for the same pair whose
\* load meets no I/O error is served from the cache and issues no request.
C1_LaterFetchServedFromCache ==
    (pc = "impl_return" /\ impl.prior /\ impl.load # "fault") =>
        (impl.load = "hit" /\ ~impl.fetched /\ impl.requests = 0)

WfStates == {"wf_read", "wf_dep", "wf_sleep", "impl_load", "impl_return"} \cup FetchStates

\* the workflow has finished one dependency (it is at the delay after it)
DepDone == pc = "wf_sleep"

\* C7 as stated: on a cache hit the workflow performs neither a fetch nor a
\* store; a fetch only on a miss, a store only on a miss whose fetch
\* returned a non-empty set.
C7_HitMeansNoStore ==
    DepDone =>
        /\ trail.hit => (~trail.fetched /\ trail.paths = <<>>)
        /\ trail.fetched => ~trail.hit
        /\ (trail.paths # <<>>) => (~trail.hit /\ trail.fetched /\ trail.got)

\* C7 amended: on a cache hit (load returned a non-empty set) the workflow
\* performs no fetch, and a fetch is issued only on a miss; a store is made
\* whenever the load-or-fetch gave a non-empty set: one (the workflow's) after
\* a hit, two (fetch-docs', then the workflow's) after a miss, none for an
\* empty set.
C7_HitMeansNoFetch ==
    DepDone =>
        /\ trail.hit => (~trail.fetched /\ trail.got /\ Len(trail.paths) = 1)
        /\ ~trail.hit => (trail.fetched /\ Len(trail.paths) = (IF trail.got THEN 2 ELSE 0))

\* a dependency served from the cache, stored again by the workflow
C7_Witness == DepDone /\ trail.hit /\ trail.requests = 0 /\ Len(trail.paths) = 1

\* a dependency fetched on a miss and stored twice
C7_WitnessMiss == DepDone /\ ~trail.hit /\ trail.got /\ Len(trail.paths) = 2

FirstFive(seq) == SubSeq(seq, 1, IF Len(seq) < 5 THEN Len(seq) ELSE 5)

\* the DependencySet the lock file given to the workflow parses to
Parsed ==
    IF wf.file.exists /\ wf.file.name = CargoLock /\ ~wf.file.fault
    THEN parse_cargo_lock(wf.file.content) ELSE <<>>

\* s is a subsequence of t
RECURSIVE IsSubsequence(_, _)
IsSubsequence(s, t) ==
    IF Len(s) = 0 THEN TRUE
    ELSE IF Len(t) = 0 THEN FALSE
    ELSE IF s[1] = t[1] THEN IsSubsequence(Tail(s), Tail(t))
    ELSE IsSubsequence(s, Tail(t))

\* a step of the workflow after the manifest was read (WfRead itself has no
\* guard but its position and is total)
WfLoopStep ==
    \/ WfDep \/ ImplLoad \/ FetchRoot \/ FetchModule \/ FetchSleep \/ FetchLoopEnd
    \/ ImplAfterFetch \/ WfSave \/ WfSleep \/ WfDone

\* C8: the keys of the workflow's mapping are among the first 5 package
\* names of the parsed manifest, in manifest order; no crate whose
\* load-or-fetch gave the empty set is among them; whatever a dependency's
\* load, fetch and store did, the workflow has a next step until it returns.
C8_OnlyFirstFiveSaved ==
    /\ IsSubsequence(KeySeq(wf.saved_paths), KeySeq(FirstFive(Parsed)))
    /\ Keys(wf.saved_paths) \cap trail.empties = {}
    /\ (pc \in WfStates \ {"wf_read"}) => ENABLED WfLoopStep

\* six dependencies: the fifth saved, the sixth published but left out,
\* others with nothing fetched
C8_Witness ==
    /\ pc = "wf_return" /\ Len(wf.dependencies) = 6
    /\ wf.dependencies[5][1] \in Keys(wf.saved_paths)
    /\ wf.dependencies[6][1] \in Published
    /\ trail.empties # {}

CurrentDep == wf.todo[wf.k]

\* the workflow went through every one of the first 5 dependencies
AllProcessed ==
    (pc = "wf_return" /\ Truthy(wf.dependencies)) =>
        /\ trail.loads = Len(FirstFive(wf.dependencies))
        /\ trail.delays = Len(FirstFive(wf.dependencies))

RecordedPathsAreDirs ==
    \A i \in DOMAIN wf.saved_paths :
        \E j \in DOMAIN wf.dependencies :
            /\ wf.dependencies[j][1] = wf.saved_paths[i][1]
            /\ wf.saved_paths[i][2] = CacheRootPath \o <<"/">> \o wf.dependencies[j][1]
                                         \o <<"-">> \o wf.dependencies[j][2]

\* C9 as stated: a dependency is recorded if and only if a store for it
\* returned a non-empty path.
C9_RecordedIffSomeStoreSucceeded ==
    /\ DepDone =>
          (CurrentDep[1] \in Keys(wf.saved_paths)
             <=> \E i \in DOMAIN trail.paths : trail.paths[i] # <<>>)
    /\ RecordedPathsAreDirs
    /\ AllProcessed

\* C9 amended: a dependency is recorded if and only if the workflow's own
\* store for it (the one after fetch-docs returned) returned a non-empty
\* path; the recorded path is {cacheRoot}/{package}-{version}; after a store
\* failure the dependency is left out and the next one is processed.
C9_RecordedIffWorkflowStoreSucceeded ==
    /\ DepDone => (CurrentDep[1] \in Keys(wf.saved_paths) <=> trail.saved # <<>>)
    /\ RecordedPathsAreDirs
    /\ AllProcessed

\* the workflow returned after a store failure on one dependency and a
\* recorded path for a later one
C9_Witness ==
    /\ pc = "wf_return" /\ trail.stores >= 3
    /\ Len(wf.saved_paths) = 1 /\ wf.saved_paths[1][1] = wf.dependencies[2][1]

\* the lock file parses to the empty DependencySet
ExpectEmpty == Parsed = <<>>

\* C10: when the manifest parses to the empty DependencySet the workflow
\* returns the empty mapping at once: no load, no request, no store, no delay.
C10_EmptyManifestDoesNothing ==
    (pc \in WfStates \cup {"wf_return"} /\ ExpectEmpty) =>
        /\ pc \in {"wf_read", "wf_return"}
        /\ wf.saved_paths = <<>>
        /\ trail.loads = 0 /\ trail.requests = 0 /\ trail.stores = 0 /\ trail.delays = 0

\* a well-named, readable lock file with text but no complete package block
C10_Witness ==
    /\ pc = "wf_return" /\ ExpectEmpty
    /\ wf.file.exists /\ wf.file.name = CargoLock /\ ~wf.file.fault
    /\ Len(wf.file.content) > 0

\* C11: the manifest reader returns the empty mapping, with no exception
\* raised, whenever the path given does not exist or the basename of the file
\* is not exactly "Cargo.lock"; in both cases the file is neither opened nor
\* parsed.
C11_MissingOrMisnamedNotRead ==
    (io.op = "read_manifest" /\ (~io.file.exists \/ io.file.name # CargoLock)) =>
        /\ io.deps = <<>>
        /\ ~io.caught
        /\ \A i \in DOMAIN io.steps : io.steps[i] \notin {"open", "read", "parse"}

\* a misnamed file whose text holds packages was given, and nothing came back
C11_Witness ==
    /\ io.op = "read_manifest" /\ io.file.exists /\ io.file.name = CargoLockLower
    /\ Len(io.blocks) = 1 /\ io.blocks[1].kind = "package"
    /\ Len(io.blocks[1].name) > 0 /\ Len(io.blocks[1].version) > 0
    /\ io.deps = <<>>

\* the sections of the manifest given that are package blocks with both a
\* name and a version
ValidBlocks ==
    SelectSeq(io.blocks, LAMBDA b : b.kind = "package" /\ Len(b.name) > 0 /\ Len(b.version) > 0)

FirstBlockOf(name) == CHOOSE i \in DOMAIN ValidBlocks :
    ValidBlocks[i].name = name /\ \A j \in 1..(i - 1) : ValidBlocks[j].name # name

LastBlockOf(name) == CHOOSE i \in DOMAIN ValidBlocks :
    ValidBlocks[i].name = name /\ \A j \in (i + 1)..Len(ValidBlocks) : ValidBlocks[j].name # name

\* C12: for a manifest text of blank-line-separated sections, parse returns
\* exactly one entry per distinct name of the package blocks that hold both a
\* name and a version, the keys in order of first occurrence, each value
\* taken from the last block with that name; a block lacking name or version
\* contributes nothing, and every entry has a non-empty name and version.
C12_ParseFirstSeenLastWrite ==
    (io.op = "parse") =>
        /\ Keys(io.deps) = {ValidBlocks[i].name : i \in DOMAIN ValidBlocks}
        /\ \A i, j \in DOMAIN io.deps :
              i < j => /\ io.deps[i][1] # io.deps[j][1]
                       /\ FirstBlockOf(io.deps[i][1]) < FirstBlockOf(io.deps[j][1])
        /\ \A i \in DOMAIN io.deps :
              /\ io.deps[i][2] = ValidBlocks[LastBlockOf(io.deps[i][1])].version
              /\ Len(io.deps[i][1]) > 0 /\ Len(io.deps[i][2]) > 0

\* b, then a, then b again with another version: b stays first and takes the
\* later version
C12_Witness ==
    /\ io.op = "parse" /\ Len(io.blocks) = 3
    /\ io.blocks[1] = PackageBlock(<<"b">>, <<"1">>, FALSE)
    /\ io.blocks[2] = PackageBlock(<<"a">>, <<"1">>, FALSE)
    /\ io.blocks[3] = PackageBlock(<<"b">>, <<"2">>, TRUE)
    /\ io.deps = << <<<<"b">>, <<"2">>>>, <<<<"a">>, <<"1">>>> >>

\* the cache directory of the pair fetch-docs was called with
ImplDir == DirName(impl.crate_name, impl.version)

\* that directory exists and holds no content file: nothing, or the index only
NoContentFile ==
    /\ cacheRoot /\ ImplDir \in DOMAIN fs
    /\ GlobMd(fs[ImplDir]) \ {ReadmeFile} = {}

\* fetch-docs gets its answer from load_cached_docs
LoadStep == pc = "impl_load" /\ pc' # "impl_load"

\* C13: over a cache directory that exists but holds no content file, load
\* gives fetch-docs the empty set and fetch-docs goes on to the scraper, with
\* the same frame as over an absent directory.
C13_EmptyDirectoryStep ==
    LoadStep =>
        /\ NoContentFile =>
              /\ impl'.cached.docs = <<>> /\ impl'.load \in {"empty", "fault"}
              /\ pc' = "fetch_root" /\ reqs' = <<>>
              /\ scraper' = NewScraper(impl.crate_name, impl.version, impl.include_features)
        /\ (~cacheRoot \/ ImplDir \notin DOMAIN fs) =>
              /\ impl'.cached.docs = <<>> /\ impl'.load = "absent"
              /\ pc' = "fetch_root" /\ reqs' = <<>>
              /\ scraper' = NewScraper(impl.crate_name, impl.version, impl.include_features)

C13_EmptyDirectoryIsMiss == [][C13_EmptyDirectoryStep]_vars

\* load found the directory with the index only, and the root page is requested
C13_Witness ==
    /\ impl.load = "empty" /\ impl.cached.found /\ Len(reqs) = 1
    /\ ImplDir \in DOMAIN fs /\ DOMAIN fs[ImplDir] = {ReadmeFile}

\* a key with each reserved character replaced by an underscore
Clean(k) ==
    [i \in DOMAIN k |-> IF k[i] \in {"<", ">", ":", "\"", "/", "\\", "|", "?", "*"} THEN "_" ELSE k[i]]

CleanFile(k) == Clean(k) \o <<".", "m", "d">>

\* the directory of the pair the last cache operation was called with
IoDir == DirName(io.crate_name, io.version)

\* the directory, every content file and the index of the last store are on
\* disk: each content file holds what the last key written to it carried
AllWritten ==
    /\ cacheRoot /\ IoDir \in DOMAIN fs
    /\ \A i \in DOMAIN io.docs :
          LET last == CHOOSE j \in DOMAIN io.docs :
                        /\ CleanFile(io.docs[j][1]) = CleanFile(io.docs[i][1])
                        /\ \A m \in (j + 1)..Len(io.docs) :
                              CleanFile(io.docs[m][1]) # CleanFile(io.docs[i][1])
          IN /\ CleanFile(io.docs[i][1]) \in DOMAIN fs[IoDir]
             /\ CleanFile(io.docs[i][1]) # ReadmeFile =>
                   fs[IoDir][CleanFile(io.docs[i][1])] = io.docs[last][2]
    /\ ReadmeFile \in DOMAIN fs[IoDir]
    /\ fs[IoDir][ReadmeFile].kind = "index"
    /\ Len(fs[IoDir][ReadmeFile].entries) = Len(io.docs)
    /\ \A i \in DOMAIN io.docs : fs[IoDir][ReadmeFile].entries[i][1] = io.docs[i][1]

\* C14: a store always returns: the empty path after any I/O failure at the
\* creation of the directory, at a content file or at the index, and the
\* path {cacheRoot}/{package}-{version} only when the directory, every
\* content file and the index were written.
C14_StoreReturnsPathOrEmpty ==
    (io.op = "store") =>
        /\ io.path \in {<<>>, CacheRootPath \o <<"/">> \o io.crate_name \o <<"-">> \o io.version}
        /\ (io.fault.at # "none" \/ ~cacheRoot) => io.path = <<>>
        /\ (io.path # <<>>) => (AllWritten /\ io.fault.at = "none")

\* the index could not be written after both content files were
C14_Witness ==
    /\ io.op = "store" /\ io.path = <<>> /\ Len(io.docs) = 2
    /\ io.fault.i = 3 /\ io.fault.at = "open"
    /\ IoDir \in DOMAIN fs /\ ReadmeFile \notin DOMAIN fs[IoDir]

\* a store that returned its directory
C14_WitnessPath == io.op = "store" /\ io.path # <<>> /\ Len(io.docs) = 2 /\ AllWritten

\* names lists exactly the directories of the cache root, in increasing order
ListsDirectories(names) ==
    /\ {names[i] : i \in DOMAIN names} = DOMAIN fs
    /\ \A i \in 1..(Len(names) - 1) : StrLess(names[i], names[i + 1])

\* C15 as stated: list returns exactly the immediate subdirectories of the
\* root in lexicographic order, the empty sequence without a root, and after
\* any store for a pair it contains {package}-{version}.
C15_ListAfterAnyStore ==
    (io.op = "list") =>
        /\ IF cacheRoot THEN ListsDirectories(io.names) ELSE io.names = <<>>
        /\ io.afterStore => \E i \in DOMAIN io.names : io.names[i] = IoDir

\* C15 amended: list returns exactly the immediate subdirectories of the
\* root in lexicographic order, the empty sequence when the root does not
\* exist or listing it raises; after a store that got past creating its
\* directory, a list that does not raise contains {package}-{version}.
C15_ListAfterDirectoryCreated ==
    (io.op = "list") =>
        /\ IF cacheRoot /\ ~io.failed THEN ListsDirectories(io.names) ELSE io.names = <<>>
        /\ (io.afterStore /\ cacheRoot /\ io.fault.at # "mkdir" /\ ~io.failed) =>
              \E i \in DOMAIN io.names : io.names[i] = IoDir

\* three directories listed in order after a store that failed at its index
C15_Witness ==
    /\ io.op = "list" /\ io.afterStore /\ io.path = <<>> /\ io.fault.at = "open"
    /\ io.names = << <<"a", "-", "1">>, <<"a", "-", "2">>, <<"a", "-", "b", "-", "1">> >>

\* the directories whose name starts with the name asked for
Matches ==
    {d \in DOMAIN fs : /\ cacheRoot /\ Len(d) >= Len(io.query)
                        /\ SubSeq(d, 1, Len(io.query)) = io.query}

FirstMatch ==
    io.order[CHOOSE i \in DOMAIN io.order :
                io.order[i] \in Matches /\ \A j \in 1..(i - 1) : io.order[j] \notin Matches]

\* C16 as stated: "no cached documentation" iff no directory of the root has a
\* name starting with the name asked for; otherwise the index of the first
\* such directory in iteration order.
C16_GetReturnsIndex ==
    (io.op = "get") =>
        /\ (io.got.kind = "none") <=> (Matches = {})
        /\ (Matches # {}) =>
              /\ io.got.kind = "index" /\ io.got.dir = FirstMatch
              /\ ReadmeFile \in DOMAIN fs[FirstMatch]
              /\ io.got.content = fs[FirstMatch][ReadmeFile]

\* C16 amended: when reading the cache raises nothing, "no cached
\* documentation" iff no directory matches; otherwise the answer is about the
\* first matching directory in iteration order: the content of its index
\* file, or the sorted names of its files when it has no index file.  When
\* reading raises, the answer is an error message.
C16_GetReturnsIndexOrListing ==
    (io.op = "get") =>
        IF io.failed THEN io.got.kind = "error"
        ELSE /\ (io.got.kind = "none") <=> (Matches = {})
             /\ (Matches # {}) =>
                   /\ io.got.dir = FirstMatch
                   /\ IF ReadmeFile \in DOMAIN fs[FirstMatch]
                      THEN io.got.kind = "index" /\ io.got.content = fs[FirstMatch][ReadmeFile]
                      ELSE /\ io.got.kind = "listing"
                           /\ {io.got.files[i] : i \in DOMAIN io.got.files} = DOMAIN fs[FirstMatch]
                           /\ \A i \in 1..(Len(io.got.files) - 1) :
                                 StrLess(io.got.files[i], io.got.files[i + 1])

\* asked for crate a with two versions of it cached, the answer lists the
\* files of the directory of another crate, which has no index
C16_Witness ==
    /\ io.op = "get" /\ io.query = <<"a">> /\ io.got.kind = "listing"
    /\ io.got.dir = <<"a", "-", "b", "-", "1">> /\ io.got.files = << <<"i", "n", "d", "e", "x", ".", "m", "d">> >>
    /\ {<<"a", "-", "1">>, <<"a", "-", "2">>} \subseteq DOMAIN fs

\* asked for crate a, the answer is the index of version 2 of it
C16_WitnessIndex ==
    /\ io.op = "get" /\ io.query = <<"a">> /\ io.got.kind = "index"
    /\ io.got.dir = <<"a", "-", "2">> /\ <<"a", "-", "1">> \in DOMAIN fs

\* the last key of the set stored that is written to the same file as k
LastWriter(k) ==
    CHOOSE j \in DOMAIN io.docs :
        /\ Clean(io.docs[j][1]) = Clean(k)
        /\ \A m \in (j + 1)..Len(io.docs) : Clean(io.docs[m][1]) # Clean(k)

NoDotMd(files) == <<".", "m", "d">> \notin DOMAIN files

C17_WitnessRestore ==
    /\ io.op = "restore" /\ io.path # <<>> /\ NoDotMd(io.pre)
    /\ Keys(io.docs) = {<<"a", "_", "b">>}

FeatureReqs == SelectSeq(reqs, LAMBDA r : r.kind = "features")

\* https://docs.rs/crate/a/1/features, spelled out
FeaturesPageOfA1 ==
    <<"h", "t", "t", "p", "s", ":", "/", "/", "d", "o", "c", "s", ".", "r", "s",
      "/", "c", "r", "a", "t", "e", "/", "a", "/", "1", "/", "f", "e", "a", "t", "u", "r", "e", "s">>

\* the one features request is the last request of the fetch
OneFeaturesRequestLast ==
    /\ Len(FeatureReqs) = 1
    /\ reqs[Len(reqs)] = Request("features", FeaturesPageOfA1)

\* C18 as stated: with include_features set a fetch issues exactly one
\* features request, after all module requests, and the result has the key
\* "features" only if that request was answered 200 with a non-empty
\* extraction; with include_features unset there is no features request.
C18_FeaturesRequestedOnce ==
    FetchOver =>
        IF scraper.include_features
        THEN /\ OneFeaturesRequestLast
             /\ (FEATURES \in Keys(scraper.docs)) => (seen.features = "stored")
        ELSE Len(FeatureReqs) = 0

\* the module names of the links the loop requests
RequestedNames == {FirstLinks(scraper.module_links)[i][1] : i \in DOMAIN FirstLinks(scraper.module_links)}

C18_AtReturn ==
    FetchOver =>
        /\ (scraper.include_features /\ scraper.entered) => OneFeaturesRequestLast
        /\ (~scraper.include_features \/ ~scraper.entered) => Len(FeatureReqs) = 0
        /\ (seen.features = "stored") =>
              Get(scraper.docs, FEATURES) = Doc(FeatureTitle(scraper.crate_name), FeaturesPageOfA1)
        /\ (FEATURES \in Keys(scraper.docs) /\ seen.features # "stored") =>
              FEATURES \in RequestedNames

C18_FeaturesStep ==
    (pc = "fetch_features" /\ seen'.features \in {"exc", "status", "empty"})
        => scraper'.docs = scraper.docs

\* C18 amended: a fetch that got past the root page with include_features
\* set issues exactly one features request, the last of the fetch, to
\* https://docs.rs/crate/<name>/<version>/features; a fetch with
\* include_features unset or stopped at the root page issues none; the
\* extraction is under "features" exactly when the request was answered 200
\* with a non-empty extraction, any other "features" key comes from a module
\* link of that name, and a failed features request changes no section.
C18_FeaturesAfterModules == []C18_AtReturn /\ [][C18_FeaturesStep]_vars

\* ten module requests, then a failed features request, sections kept
C18_Witness ==
    /\ FetchOver /\ scraper.include_features /\ Len(ModuleReqs) = 10
    /\ seen.features = "status" /\ Len(scraper.docs) > 1

\* the features extraction stored after module requests
C18_WitnessStored ==
    /\ FetchOver /\ seen.features = "stored" /\ Len(ModuleReqs) > 0

\* what one step starts: HTTP requests, file operations (a load or a store), a delay
RequestsStarted == trail'.requests - trail.requests

FileOpsStarted == (trail'.loads - trail.loads) + (trail'.stores - trail.stores)

DelayStarted == IF pc \in {"fetch_sleep", "wf_sleep"} THEN 1 ELSE 0

C19_Step ==
    /\ RequestsStarted \in {0, 1} /\ FileOpsStarted \in {0, 1}
    /\ RequestsStarted + FileOpsStarted + DelayStarted <= 1
    /\ (RequestsStarted = 1) =>
          (pc \in {"fetch_root", "fetch_module", "fetch_features"} /\ Len(reqs') = Len(reqs) + 1)
    /\ (pc = "fetch_module" /\ RequestsStarted = 1 /\ seen'.last \in {"ok", "status"})
          => pc' = "fetch_sleep"
    /\ (pc = "fetch_sleep") => (pc' = "fetch_module" /\ scraper'.i = scraper.i + 1)
    /\ (wf.k >= 1 /\ wf'.k > wf.k) => (pc = "wf_sleep" /\ wf'.k = wf.k + 1)

\* C19: the workflow and each fetch in it are one thread of control: every
\* step starts at most one awaited operation (one HTTP request, or one load
\* or store, or one delay) and the next starts only after it has completed;
\* the request for the next module page follows the delay of an answered
\* one, and the next dependency follows the delay between dependencies.
C19_OneOperationInFlight == [][C19_Step]_vars

\* a workflow that has requested pages, stored, and slept between two dependencies
C19_Witness ==
    /\ pc = "wf_return" /\ trail.delays >= 2 /\ trail.requests >= 3
    /\ trail.stores >= 1 /\ trail.loads >= 2

\* the cache after save_docs_to_disk for docs has run alone on cache
StoredAlone(cache, docs) ==
    save_docs_to_disk(TRUE, cache, RacePair[1], RacePair[2], docs, NoFault).fs

BothDone == pc = "race" /\ \A p \in DOMAIN savers : savers[p].at = "done"

\* C20 as stated: when two concurrent stores for one package and version are
\* both over, the cache is what the two stores leave when run one after the
\* other in one of the two orders, and with equal DocumentSets it is what a
\* single store leaves.
C20_RaceIsSomeSequentialOrder ==
    BothDone =>
        /\ \/ fs = StoredAlone(StoredAlone(EmptyFn, savers[1].docs), savers[2].docs)
           \/ fs = StoredAlone(StoredAlone(EmptyFn, savers[2].docs), savers[1].docs)
        /\ (savers[1].docs = savers[2].docs) => fs = StoredAlone(EmptyFn, savers[1].docs)

\* the part of C20 about equal DocumentSets
SameSetRaceIsOneStore ==
    (BothDone /\ savers[1].docs = savers[2].docs) => fs = StoredAlone(EmptyFn, savers[1].docs)

\* every file whole, yet index.md from one invocation and a.md from the other
MixedDirectory ==
    /\ BothDone
    /\ fs[RaceDir][FileNameOf(INDEX)] = Text2
    /\ fs[RaceDir][FileNameOf(<<"a">>)] = Text1

\* C21: the session of fetch-docs exists exactly while its fetch runs: it is
\* opened when the load missed, it is open at every step of the fetch, and
\* it is closed when fetch-docs has the fetch's result, whichever way the
\* fetch ended; a call served from the cache opens none.
C21_SessionClosedOnEveryExit ==
    /\ (impl.session = "open") <=> (impl.caller # "none" /\ pc \in FetchStates \cup {"fetch_return"})
    /\ (pc = "impl_return") => (impl.session = IF impl.fetched THEN "closed" ELSE "none")
    /\ (pc \in {"idle", "wf_dep", "wf_sleep", "wf_return"}) => impl.session # "open"

\* fetch-docs back from a fetch that stopped at the root page
C21_Witness ==
    pc = "impl_return" /\ impl.fetched /\ impl.requests = 1 /\ impl.ret = <<>> /\ impl.session = "closed"

\* fetch-docs back from a fetch that went through module and features requests
C21_WitnessNormal ==
    pc = "impl_return" /\ impl.requests > 2 /\ Truthy(impl.ret) /\ impl.session = "closed"

\* the last request issued was a module request answered 200 and processed
LastModuleSucceeded ==
    Len(reqs) > 0 /\ reqs[Len(reqs)].kind = "module" /\ seen.last = "ok"

C22_Step ==
    /\ (pc = "fetch_module" /\ reqs' # reqs /\ seen'.last = "ok")
          => (pc' = "fetch_sleep" /\ scraper'.i = scraper.i)
    /\ (pc = "fetch_sleep") => (reqs' = reqs /\ seen'.slept)
    /\ (reqs' # reqs /\ LastModuleSucceeded) => seen.slept

\* C22: a module request that was answered 200 and processed is followed by
\* the delay, and the next request of the fetch, for a module or for the
\* features page, is issued only after that delay.
C22_DelayAfterSuccessfulModule == [][C22_Step]_vars

\* a features request issued after the delay that followed the last successful module request
C22_Witness ==
    /\ pc = "fetch_features" /\ LastModuleSucceeded /\ seen.slept

\* a module request issued after the delay that followed a successful one
C22_WitnessModule ==
    /\ pc = "fetch_module" /\ LastModuleSucceeded /\ seen.slept
    /\ scraper.i <= Len(FirstLinks(scraper.module_links))

\* the first line of a section's text that is not blank, as written
RECURSIVE FirstNonBlank(_)
FirstNonBlank(lines) ==
    IF Len(lines) = 0 THEN <<>>
    ELSE IF Strip(lines[1]) # <<>> THEN lines[1]
    ELSE FirstNonBlank(Tail(lines))

FirstLineOf(b) == FirstNonBlank(SplitAt(SectionText(b), NL))

HeaderLiteral == <<"[", "[", "p", "a", "c", "k", "a", "g", "e", "]", "]">>

NamesWhere(Test(_)) == {io.blocks[i].name : i \in {j \in DOMAIN io.blocks : Test(io.blocks[j])}}

\* C23 as stated: the sections that contribute an entry are exactly those
\* whose first non-blank line equals [[package]] (each section here has a
\* name and a version line).
C23_OnlyExactHeader ==
    (io.op = "parse") =>
        Keys(io.deps) = NamesWhere(LAMBDA b : b.kind # "header" /\ FirstLineOf(b) = HeaderLiteral)

\* C23 amended: the sections that contribute an entry are exactly those
\* whose first non-blank line, leading whitespace aside, begins with
\* [[package]]; a section that opens with anything else contributes none,
\* although it has a name and a version line.
C23_OnlyHeaderPrefix ==
    (io.op = "parse") =>
        Keys(io.deps) = NamesWhere(LAMBDA b : b.kind # "header"
                                       /\ StartsWith(Strip(FirstLineOf(b)), HeaderLiteral))

\* a section opened by another table's header and one opened by a comment
\* line, each with name and version, beside a package block
C23_Witness ==
    /\ io.op = "parse" /\ Len(io.blocks) = 3
    /\ {io.blocks[i].kind : i \in DOMAIN io.blocks} = {"table", "late", "package"}
    /\ Keys(io.deps) = {<<"a">>}

\* a header with a comment behind it and an indented header are taken
C23_WitnessPrefix ==
    /\ io.op = "parse"
    /\ {io.blocks[i].kind : i \in DOMAIN io.blocks} = {"comment", "indented", "table"}
    /\ Keys(io.deps) = {<<"b">>, <<"c">>}

\* a store has just returned its directory, as every store before it did
AfterSuccessfulStores == io.op \in {"store", "restore"} /\ io.allOk

IndexEntries == fs[IoDir][ReadmeFile].entries

\* the files the index links to, and the files of the directory beside the index
Linked == {IndexEntries[i][2] : i \in DOMAIN IndexEntries}

ContentFiles == DOMAIN fs[IoDir] \ {<<"R", "E", "A", "D", "M", "E", ".", "m", "d">>}

\* C24 as stated: after successful stores the files the index links to are
\* exactly the content files of the directory.
C24_IndexListsContentFiles ==
    AfterSuccessfulStores => Linked = ContentFiles

\* C24 amended: after successful stores the index has one entry per key of
\* the set stored last, in order, linking to the key's sanitised file name;
\* every entry links to a file of the directory; a content file without an
\* entry was in the directory before the store.
C24_IndexListsLastStore ==
    AfterSuccessfulStores =>
        /\ Len(IndexEntries) = Len(io.docs)
        /\ \A i \in DOMAIN io.docs : IndexEntries[i] = <<io.docs[i][1], CleanFile(io.docs[i][1])>>
        /\ Linked \subseteq DOMAIN fs[IoDir]
        /\ ContentFiles \ Linked \subseteq DOMAIN io.pre

\* a second store with another key: the file of the first is left without an entry
C24_Witness ==
    /\ AfterSuccessfulStores /\ io.op = "store" /\ io.existed
    /\ Linked = {<<"b", ".", "m", "d">>}
    /\ ContentFiles = {<<"a", ".", "m", "d">>, <<"b", ".", "m", "d">>}

\* a load without I/O error on a directory holding files would be a cache hit
WouldHit(exists, files) ==
    LET cache == [x \in {IoDir} |-> files]
    IN exists /\ \E order \in LoadOrders(TRUE, cache, io.crate_name, io.version) :
                    CacheHit(load_cached_docs(TRUE, cache, io.crate_name, io.version, order, FALSE))

FailedStore == io.op \in {"store", "restore"} /\ io.path = <<>>

\* C25: a store that returned the empty path has not made the pair's
\* directory one that a later load, and so fetch-docs, takes for a cache hit:
\* if a load is a hit after it, a load was a hit before it.
C25_FailedStoreLeavesNoHit ==
    FailedStore =>
        (WouldHit(cacheRoot /\ IoDir \in DOMAIN fs, IF IoDir \in DOMAIN fs THEN fs[IoDir] ELSE EmptyFn)
            => WouldHit(io.existed, io.pre))

\* C26: the directory of a pair holds only what stores for that pair wrote:
\* a load returns content only for a pair some store has run for, and a
\* store finds its directory present only if a store for its own pair has
\* run before.
C26_PairsShareNoDirectory ==
    /\ (io.op = "load" /\ io.ret.found /\ Truthy(io.ret.docs)) => io.wasWritten
    /\ (io.op = "store" /\ io.existed) => io.wasWritten

\* https://docs.rs/a/1/a/, spelled out
RootPageOfA1 ==
    <<"h", "t", "t", "p", "s", ":", "/", "/", "d", "o", "c", "s", ".", "r", "s",
      "/", "a", "/", "1", "/", "a", "/">>

\* the extraction of the root page of crate a under the title "a (main)"
RootExtractionOfA1 ==
    [kind |-> "doc", title |-> <<"#", " ", "a", " ", "(", "m", "a", "i", "n", ")">>,
     src |-> RootPageOfA1, entries |-> <<>>]

\* C27: when the set fetch returns has the key "index", its value is the
\* extraction of the root page under the title "{package} (main)", and every
\* section of the set is the extraction of a page the fetch requested.
C27_IndexIsRootExtraction ==
    FetchOver =>
        /\ (INDEX \in Keys(scraper.docs)) => Get(scraper.docs, INDEX) = RootExtractionOfA1
        /\ \A i \in DOMAIN scraper.docs :
              \E j \in DOMAIN reqs : scraper.docs[i][2].src = reqs[j].url

\* https://docs.rs/, spelled out
DocsRsOrigin ==
    <<"h", "t", "t", "p", "s", ":", "/", "/", "d", "o", "c", "s", ".", "r", "s", "/">>

BeginsWith(url, prefix) == Len(url) >= Len(prefix) /\ SubSeq(url, 1, Len(prefix)) = prefix

\* C28: every request of a fetch goes to https://docs.rs/: the root request
\* to the crate's root page, the features request to the features page, and
\* every module request to a URL under the crate's root page.
C28_RequestsStayOnDocsRs ==
    \A j \in DOMAIN reqs :
        /\ BeginsWith(reqs[j].url, DocsRsOrigin)
        /\ (reqs[j].kind = "root") => reqs[j].url = RootPageOfA1
        /\ (reqs[j].kind = "features") => reqs[j].url = FeaturesPageOfA1
        /\ (reqs[j].kind = "module") => BeginsWith(reqs[j].url, RootPageOfA1)

\* C29: a fetch-docs whose load gave a non-empty set returns that set, which
\* is what the content files of the pair's directory hold, key by key, and
\* has issued no request and opened no session, with include_features set as
\* with include_features unset.
C29_HitReturnsLoadedSet ==
    (pc = "impl_return" /\ impl.load = "hit") =>
        /\ impl.ret = impl.cached.docs /\ Len(impl.ret) > 0
        /\ impl.requests = 0 /\ ~impl.fetched /\ impl.session = "none" /\ reqs = <<>>
        /\ \A i \in DOMAIN impl.ret :
              LET name == impl.ret[i][1] \o <<".", "m", "d">>
              IN name \in DOMAIN fs[ImplDir] /\ fs[ImplDir][name] = impl.ret[i][2]

\* a hit of a call with include_features set on an entry without a features file
C29_Witness ==
    /\ pc = "impl_return" /\ impl.load = "hit" /\ impl.include_features
    /\ <<"f", "e", "a", "t", "u", "r", "e", "s", ".", "m", "d">> \notin DOMAIN fs[ImplDir]
    /\ Len(impl.ret) > 0

RequestsOfKind(kind) == Len(SelectSeq(reqs, LAMBDA r : r.kind = kind))

\* at most 12 requests in a fetch, at most 5 dependencies in a run, no empty section
C30_Bounds ==
    /\ Len(reqs) <= 12
    /\ RequestsOfKind("root") <= 1 /\ RequestsOfKind("module") <= 10
    /\ RequestsOfKind("features") <= 1
    /\ Len(scraper.docs) <= Len(reqs)
    /\ \A i \in DOMAIN scraper.docs : scraper.docs[i][2] # <<>> /\ scraper.docs[i][2].kind = "doc"
    /\ Len(wf.todo) <= 5 /\ wf.k <= 6 /\ trail.loads <= 5 /\ Len(wf.saved_paths) <= 5

\* a section is added only by a step that issued one request answered 200
C30_EntryStep ==
    (pc \in FetchStates /\ Len(scraper'.docs) > Len(scraper.docs)) =>
        /\ Len(scraper'.docs) = Len(scraper.docs) + 1
        /\ Len(reqs') = Len(reqs) + 1
        /\ \/ pc = "fetch_root" /\ seen'.rootStatus = 200
           \/ pc = "fetch_module" /\ seen'.last = "ok"
           \/ pc = "fetch_features" /\ seen'.features = "stored"

\* the fetch has returned to its caller, or the workflow has returned
RunOver == pc \in {"fetch_return", "wf_return"} /\ (pc = "fetch_return" => impl.caller = "none")

\* C30: a fetch issues at most 12 requests (1 root, 10 module, 1 features),
\* each section of its result was added by its own request answered 200 and
\* is non-empty; a workflow run goes through at most 5 dependencies; and
\* when every step that can be taken is taken, the fetch and the run, once
\* the manifest is read, come to their return.
C30_BoundedAndTerminates ==
    /\ []C30_Bounds
    /\ [][C30_EntryStep]_vars
    /\ (pc # "wf_read") ~> RunOver

\* a fetch over after 12 requests
C30_Witness ==
    /\ pc = "fetch_return" /\ impl.caller = "none" /\ Len(reqs) = 12
    /\ RequestsOfKind("module") = 10 /\ Len(scraper.docs) > 2

\* a run over after 5 of 6 dependencies
C30_WitnessRun ==
    /\ pc = "wf_return" /\ Len(wf.dependencies) = 6 /\ trail.loads = 5 /\ trail.requests > 0

====
